---- MODULE Spec2Model ----
(***************************************************************************)
(* A model of the PASL peer connection (network/pasl/connection.go), of    *)
(* the block serialisation it uses and of NewBlock with GetOperationsHash  *)
(* (safebox block), of the reflection driven binary codec                  *)
(* (utils/serialize.go) and of the ChangeKey operation                     *)
(* (safebox/tx/txchangekey.go).                                            *)
(*                                                                         *)
(* One group of variables per part of the program, and its specifications: *)
(*   SpecGetBlocks  the getblocks request handler, one loop turn per step  *)
(*   Spec           the peer thread of one connection and its channels     *)
(*   SpecCodec      strucWalker driving Serialize and then Deserialize     *)
(*   SpecDecode     the same, Deserialize reading an input cut short       *)
(*   SpecBytes      SerializeBytes and then DeserializeBytes               *)
(*   SpecBlock      NewBlock building a chain, one loop turn per step      *)
(*   SpecChangeKey  ChangeKey.Validate and then ChangeKey.Apply            *)
(* A specification leaves the variables of the other groups untouched.     *)
(***************************************************************************)
EXTENDS Integers, Sequences, FiniteSets, TLC

VARIABLES
    \* ---- onGetBlocksRequest
    gbChain,        \* the indices (uint32) of the blocks the local chain stores
    gbPc,           \* "idle" | "loop" | "done"
    gbRequest,      \* the decoded packetGetBlocksRequest as received
    gbPacket,       \* packet, after the swap and the clamp
    gbTotal,        \* total
    gbIndex,        \* the loop variable index
    gbSerialized,   \* serialized
    gbOut,          \* the handler's returns: <<>> until it returns, then <<response packet>>
    \* ---- one PascalConnection, its peer thread and its channels
    nonce,          \* this.nonce
    isOutgoing,     \* the argument OnOpen was called with
    opened,         \* OnOpen has run
    alive,          \* the engine has not terminated the connection
    state,          \* this.state: [height, prevSafeboxHash]
    stateLock,      \* this.stateLock: "unlocked" | "locked" (write-locked by SetState)
    pc,             \* the peer thread: "idle" between frames, "send" blocked on a channel send
    todo,           \* the channel sends the running handler still has to make, in order
    fin,            \* what the running handler returns after them: [out, err]
    lastReturn,     \* the return of the last handler that returned
    cur,            \* the frame the peer thread is handling, or handled last
    nframes,        \* the number of frames dispatched to handlers so far
    outbox,         \* the frames this side has written, in order
    pending,        \* the engine's pending-request map: records [id, cb]
    nextId,         \* the engine's request id counter
    chans,          \* the content of each event channel; the events of earlier frames
                    \* are kept as OldEvent, which holds the place and not the value
    recv,           \* history: the events of the current frame the consumer has received
    chanCap,        \* the capacity of the channels (0: unbuffered)
    lastGet,        \* the result of a GetState made since the last dispatch: <<>> or <<[height, hash]>>
    \* ---- utils.Serialize and utils.Deserialize, one turn of strucWalker's loop per step
    cdType,         \* the declared type of the value
    cdValue,        \* the value given to Serialize
    cdAddr,         \* Serialize was given a pointer (the value is addressable)
    cdPresized,     \* the destination's unprefixed byte fields are allocated to the source's lengths
    cdMode,         \* "serialize" | "serialized" | "deserialize" | "done" | "panic"
    cdRoot,         \* the value strucWalker walks: cdValue, then the destination
    cdStack,        \* wayBack: pairs [a, b], a the path of a value and b the next index in it
    cdBuf,          \* Serialize: the bytes written; Deserialize: the bytes not yet read
    cdLog,          \* history: the paths the callback was called on, in order
    cdCut,          \* history: the bytes given to Deserialize were cut short
    cdErr,          \* what Deserialize returned: <<>> until it returns, then <<err>>
    \* ---- utils.SerializeBytes and utils.DeserializeBytes
    sbData,         \* the byte sequence given to SerializeBytes
    sbCut,          \* history: the reader was given less than SerializeBytes returned
    sbPc,           \* "start" | "serialized" | "sized" | "made" | "done" | "panic"
    sbWire,         \* the bytes the reader still holds
    sbSize,         \* size (int16)
    sbOut,          \* DeserializeBytes' return: <<>> until it returns, then <<[data, err]>>
    \* ---- safebox.NewBlock and GetOperationsHash, one loop turn per step
    blChain,        \* history: the blocks NewBlock has returned, in order
    blPc,           \* "idle" | "fee" | "hash" | "accounts"
    blMeta,         \* meta: [Index, MinerValid, Operations]
    blIndex,        \* the loop variable of the running loop (from 1)
    blFee,          \* fee (uint64)
    blOperations,   \* operations
    blHash,         \* hash, in GetOperationsHash
    blAccounts,     \* block.Accounts
    blErr,          \* the error NewBlock returned last
    \* ---- tx.ChangeKey: Validate, then Apply with the context it returned
    ckAccounts,     \* getAccount: for each number <<>> (nil) or <<account>>
    ckOp,           \* this: [Source, OperationId, Fee, NewPublickey]
    ckPc,           \* "start" | "validated" | "rejected" | "applied"
    ckContext,      \* the context Validate returned: <<>> (nil) or <<[Source, NewPublic]>>
    ckErr,          \* the error returned last
    ckResult,       \* the map Apply returned: <<>> until then, then <<map>>
    \* ---- SetState on the peer thread against GetState on the consumer
    stHeap,         \* the byte buffers in memory, by address (1, 2, ...)
    stArg,          \* the address of the buffer SetState was last given (0: none)
    stGiven,        \* history: what that buffer held when SetState was called
    stHeight,       \* the height SetState was last given
    stState,        \* this.state: [height, prevSafeboxHash (an address)]
    stLock,         \* this.stateLock: "unlocked" | "locked" | "rlocked"
    stPeer,         \* the peer thread: "idle" | "lock" | "body" | "send" | "unlock"
    stChan,         \* the number of events the onStateUpdate channel holds
    stCap,          \* the capacity of the onStateUpdate channel (0: unbuffered)
    stConsumer,     \* the consumer: "receive" | "handle" | "reading"
    stGot,          \* what GetState returned last: <<>> or <<[height, prevSafeboxHash]>>
    stCalls         \* the number of SetState calls so far

gbVars == <<gbChain, gbPc, gbRequest, gbPacket, gbTotal, gbIndex, gbSerialized, gbOut>>

connVars == <<nonce, isOutgoing, opened, alive, state, stateLock, pc, todo, fin,
              lastReturn, cur, nframes, outbox, pending, nextId, chans, recv, chanCap, lastGet>>

cdVars == <<cdType, cdValue, cdAddr, cdPresized, cdMode, cdRoot, cdStack, cdBuf, cdLog,
            cdCut, cdErr>>

sbVars == <<sbData, sbCut, sbPc, sbWire, sbSize, sbOut>>

blVars == <<blChain, blPc, blMeta, blIndex, blFee, blOperations, blHash, blAccounts, blErr>>

ckVars == <<ckAccounts, ckOp, ckPc, ckContext, ckErr, ckResult>>

stVars == <<stHeap, stArg, stGiven, stHeight, stState, stLock, stPeer, stChan, stCap, stConsumer,
            stGot, stCalls>>

vars == <<gbVars, connVars, cdVars, sbVars, blVars, ckVars, stVars>>

\* What the steps of one part of the program leave alone
exceptGb == <<connVars, cdVars, sbVars, blVars, ckVars, stVars>>

exceptConn == <<gbVars, cdVars, sbVars, blVars, ckVars, stVars>>

exceptCd == <<gbVars, connVars, sbVars, blVars, ckVars, stVars>>

exceptSb == <<gbVars, connVars, cdVars, blVars, ckVars, stVars>>

exceptBl == <<gbVars, connVars, cdVars, sbVars, ckVars, stVars>>

exceptCk == <<gbVars, connVars, cdVars, sbVars, blVars, stVars>>

exceptSt == <<gbVars, connVars, cdVars, sbVars, blVars, ckVars>>

Nil == "nil"

(***************************************************************************)
(* uint32 as two 16-bit limbs <<hi, lo>>: TLC's integers are 32-bit signed *)
(* so the full unsigned range, wrap-around included, is kept in limbs.     *)
(***************************************************************************)
Limb == 65536

U32Of(n) == <<n \div Limb, n % Limb>>

U32Max == <<Limb - 1, Limb - 1>>

U32Gt(a, b) == a[1] > b[1] \/ (a[1] = b[1] /\ a[2] > b[2])

U32Le(a, b) == ~U32Gt(a, b)

\* a - b modulo 2^32
U32Sub(a, b) ==
    LET lo     == a[2] - b[2]
        borrow == IF lo < 0 THEN 1 ELSE 0
    IN  <<(a[1] - b[1] - borrow + 2 * Limb) % Limb, (lo + Limb) % Limb>>

\* a + b modulo 2^32
U32Add(a, b) ==
    LET lo == a[2] + b[2]
    IN  <<(a[1] + b[1] + lo \div Limb) % Limb, lo % Limb>>

U32Inc(a) == U32Add(a, U32Of(1))

(***************************************************************************)
(* Blocks.  A stored block is determined by its index here; the header     *)
(* carries the fields the getters of Block return.  Miner, Reward and      *)
(* Target come from packages outside this model and are left out.          *)
(***************************************************************************)
BlockAt(index) ==
    [Meta       |-> [Index |-> index, Timestamp |-> index[2] % 7, Nonce |-> 0,
                     Payload |-> <<>>, PrevSafeBoxHash |-> <<>>],
     Operations |-> <<>>,
     Fee        |-> 0]

SerializeHeader(block, willAppendOperations) ==
    [HeaderOnly      |-> IF willAppendOperations THEN 2 ELSE 3,
     Version         |-> [Major |-> 1, Minor |-> 1],
     Index           |-> block.Meta.Index,
     Fee             |-> block.Fee,
     Time            |-> block.Meta.Timestamp,
     Nonce           |-> block.Meta.Nonce,
     Payload         |-> block.Meta.Payload,
     PrevSafeboxHash |-> block.Meta.PrevSafeBoxHash,
     Pow             |-> <<>>]

BlockSerialize(block) ==
    [Header     |-> SerializeHeader(block, TRUE),
     Operations |-> block.Operations]

\* The zero value of SerializedBlock: what make([]SerializedBlock, n) holds.
ZeroSerializedBlock ==
    [Header     |-> [HeaderOnly |-> 0, Version |-> [Major |-> 0, Minor |-> 0],
                     Index |-> U32Of(0), Fee |-> 0, Time |-> 0, Nonce |-> 0,
                     Payload |-> <<>>, PrevSafeboxHash |-> <<>>, Pow |-> <<>>],
     Operations |-> <<>>]

(***************************************************************************)
(* onGetBlocksRequest                                                      *)
(***************************************************************************)
NetworkBlocksPerRequest == 100

GbSmall == 2

\* blockchain.GetBlock: a pointer, <<>> for nil and <<block>> for a stored block
GetBlock(index) == IF index \in gbChain THEN <<BlockAt(index)>> ELSE <<>>

\* make([]safebox.SerializedBlock, total): total zero-valued entries
MakeSerialized(total) == [i \in 1..(total[1] * Limb + total[2]) |-> ZeroSerializedBlock]

GbPrefix(h) == {U32Of(i) : i \in 0..(h - 1)}

GbChains ==
    {GbPrefix(h) : h \in {0, 1, GbSmall, NetworkBlocksPerRequest + 1,
                          NetworkBlocksPerRequest + 1 + GbSmall}}
    \cup {GbPrefix(GbSmall + 2) \ {U32Of(1)}}
    \cup {GbPrefix(GbSmall) \cup {U32Sub(U32Max, U32Of(1)), U32Max}}

GbIndices ==
    {U32Of(i) : i \in (0..GbSmall) \cup {NetworkBlocksPerRequest,
                                         NetworkBlocksPerRequest + GbSmall}}
    \cup {U32Sub(U32Max, U32Of(1)), U32Max}

GbStart(chain) ==
    /\ gbChain = chain
    /\ gbPc = "idle"
    /\ gbRequest = [FromIndex |-> U32Of(0), ToIndex |-> U32Of(0)]
    /\ gbPacket = [FromIndex |-> U32Of(0), ToIndex |-> U32Of(0)]
    /\ gbTotal = U32Of(0)
    /\ gbIndex = U32Of(0)
    /\ gbSerialized = <<>>
    /\ gbOut = <<>>

GbInit == \E chain \in GbChains : GbStart(chain)

\* lines 181-196: decode, swap the bounds, clamp, allocate
onGetBlocksRequest(from, to) ==
    /\ gbPc \in {"idle", "done"}
    /\ LET swapped == IF U32Gt(from, to)
                      THEN [FromIndex |-> to, ToIndex |-> from]
                      ELSE [FromIndex |-> from, ToIndex |-> to]
           total0  == U32Sub(swapped.ToIndex, swapped.FromIndex)
           clamp   == U32Gt(total0, U32Of(NetworkBlocksPerRequest))
           total   == IF clamp THEN U32Of(NetworkBlocksPerRequest) ELSE total0
           packet  == IF clamp
                      THEN [swapped EXCEPT !.ToIndex = U32Add(swapped.FromIndex, total)]
                      ELSE swapped
       IN  /\ gbRequest' = [FromIndex |-> from, ToIndex |-> to]
           /\ gbPacket' = packet
           /\ gbTotal' = total
           /\ gbSerialized' = MakeSerialized(total)
           /\ gbIndex' = packet.FromIndex
    /\ gbPc' = "loop"
    /\ gbOut' = <<>>
    /\ UNCHANGED gbChain

\* lines 197-204: one turn of the for loop
GetBlocksLoop ==
    /\ gbPc = "loop"
    /\ IF U32Le(gbIndex, gbPacket.ToIndex) /\ GetBlock(gbIndex) # <<>>
       THEN /\ gbSerialized' = Append(gbSerialized, BlockSerialize(GetBlock(gbIndex)[1]))
            /\ gbIndex' = U32Inc(gbIndex)
            /\ UNCHANGED <<gbPc, gbOut>>
       ELSE \* the loop condition fails, or the block is missing: break
            \* lines 206-211: the response packet
            /\ gbOut' = <<[Blocks |-> gbSerialized]>>
            /\ gbPc' = "done"
            /\ UNCHANGED <<gbSerialized, gbIndex>>
    /\ UNCHANGED <<gbChain, gbRequest, gbPacket, gbTotal>>

GbNext ==
    \/ \E from \in GbIndices, to \in GbIndices : onGetBlocksRequest(from, to) /\ UNCHANGED exceptGb
    \/ GetBlocksLoop /\ UNCHANGED exceptGb


(***************************************************************************)
(* The connection: PascalConnection, its peer thread, its event channels   *)
(***************************************************************************)
MaxFrames == 2

MaxDownloads == 1

MaxOps == 2

MaxChanCap == 1

HashLen == 32

Chans == {"onStateUpdate", "onNewBlock", "onNewOperation", "peerUpdates", "downloadingDone"}

Fill(n, b) == [i \in 1..n |-> b]

\* copy(state.prevSafeboxHash[:32], prevSafeboxHash) into make([]byte, 32)
CopyHash(prevSafeboxHash) ==
    [i \in 1..HashLen |-> IF i <= Len(prevSafeboxHash) THEN prevSafeboxHash[i] ELSE 0]

NoError == "nil"

LoopbackError == "Loopback connection"

GetBlocksFailed == "GetBlocks request failed"

OwnNonce == <<7, 7>>

OtherNonce == <<9, 9>>

PendingBlock == BlockAt(U32Of(4))

SB(i) == BlockSerialize(BlockAt(U32Of(i)))

\* generateHello(0, nonce, header, peers, defaults.UserAgent)
generateHello(n, header, peers) ==
    [Nonce |-> n, Block |-> header, Peers |-> peers, UserAgent |-> "ua"]

ZeroHeader == ZeroSerializedBlock.Header

\* The zero values Deserialize leaves in a packet when the payload is empty.
ZeroHello == [Nonce |-> <<>>, Block |-> ZeroHeader, Peers |-> <<>>, UserAgent |-> ""]

ZeroNewBlock == [SerializedBlock |-> ZeroSerializedBlock]

ZeroNewOperations == [Operations |-> <<>>]

ZeroGetBlocksResponse == [Blocks |-> <<>>]

ZeroError == [Message |-> ""]

\* utils.Deserialize into a zero-valued packet.  A payload is <<>> (no bytes)
\* or <<p>> (the encoding of packet p).  Deserialize ignores every read
\* error and always returns nil (serialize.go:260), so an empty payload
\* leaves the packet at its zero value and is no error.
DeserializePacket(payload, zero) ==
    [err |-> NoError, packet |-> IF payload = <<>> THEN zero ELSE payload[1]]

\* ---- the inputs a peer may send
HelloHeader(i, hash) ==
    [SerializeHeader(BlockAt(U32Of(i)), FALSE) EXCEPT !.PrevSafeboxHash = hash]

HelloPacket(n, i, hash, peers) ==
    [Nonce |-> n, Block |-> HelloHeader(i, hash), Peers |-> peers, UserAgent |-> "peer"]

HelloPayloads ==
    {<<>>,
     <<HelloPacket(OtherNonce, 5, Fill(HashLen, 1), <<>>)>>,
     <<HelloPacket(OtherNonce, 9, Fill(HashLen - 1, 2), <<"p1", "p2">>)>>,
     <<HelloPacket(OtherNonce, 9, Fill(HashLen + 1, 3), <<>>)>>,
     <<HelloPacket(OwnNonce, 5, Fill(HashLen, 1), <<"p1", "p2">>)>>}

\* The first k of the operations op 1, op 2, ... and of the blocks 1, 2, ...
OpsUpTo(k) == [i \in 1..k |-> [op |-> i]]

BlocksUpTo(k) == [i \in 1..k |-> SB(i)]

NewBlockPayloads == {<<>>, <<[SerializedBlock |-> SB(1)]>>, <<[SerializedBlock |-> SB(2)]>>}

NewOperationsPayloads ==
    {<<>>} \cup {<<[Operations |-> OpsUpTo(k)]>> : k \in 0..MaxOps}

GetBlocksResponsePayloads ==
    {<<>>} \cup {<<[Blocks |-> BlocksUpTo(k)]>> : k \in 0..MaxOps}

ErrorPayloads == {<<>>, <<[Message |-> "oops"]>>}

DownloadRanges == {<<U32Of(1), U32Of(3)>>}

ZeroState == [height |-> U32Of(0), prevSafeboxHash |-> Fill(HashLen, 0)]

ConnStart(cap) ==
    /\ chanCap = cap
    /\ nonce = OwnNonce
    /\ isOutgoing = FALSE
    /\ opened = FALSE
    /\ alive = TRUE
    /\ state = ZeroState
    /\ stateLock = "unlocked"
    /\ pc = "idle"
    /\ todo = <<>>
    /\ fin = [out |-> <<>>, err |-> NoError]
    /\ lastReturn = [out |-> <<>>, err |-> NoError]
    /\ cur = [rpc |-> "none", op |-> "none", id |-> 0, payload |-> <<>>, nilResponse |-> FALSE,
              stateBefore |-> ZeroState, outLen |-> 0, prev |-> "none", hello |-> <<>>]
    /\ nframes = 0
    /\ outbox = <<>>
    /\ pending = {}
    /\ nextId = 0
    /\ chans = [c \in Chans |-> <<>>]
    /\ recv = [c \in Chans |-> <<>>]
    /\ lastGet = <<>>

ConnInit == \E cap \in {0, MaxChanCap} : ConnStart(cap)

\* protocol.sendRequest(op, payload, callback): a fresh request id, the
\* callback kept in the pending map, the frame written
sendRequest(op, payload, cb) ==
    /\ outbox' = Append(outbox, [rpc |-> "request", op |-> op, id |-> nextId, payload |-> payload])
    /\ pending' = IF cb = Nil THEN pending ELSE pending \cup {[id |-> nextId, cb |-> cb]}
    /\ nextId' = nextId + 1

\* Which handler errors make the engine terminate the connection.
FatalToPeer(err) == err = LoopbackError

\* The handler returns: the engine writes the response a request handler
\* produced, and terminates the connection on a fatal error.
Finish(frame, ret) ==
    /\ pc' = "idle"
    /\ lastReturn' = ret
    /\ alive' = (alive /\ ~FatalToPeer(ret.err))
    /\ outbox' = IF frame.rpc = "request" /\ ret.out # <<>>
                 THEN Append(outbox, [rpc |-> "response", op |-> frame.op, id |-> frame.id,
                                      payload |-> ret.out])
                 ELSE outbox

OldEvent == [ev |-> <<>>, frame |-> 0, by |-> "earlier"]

\* A handler starts on `frame` with the channel sends `sends` ahead of it
\* and `ret` to return after them.
Run(frame, sends, ret) ==
    /\ cur' = frame
    /\ nframes' = nframes + 1
    /\ recv' = [c \in Chans |-> <<>>]
    /\ chans' = [c \in Chans |-> [i \in 1..Len(chans[c]) |-> OldEvent]]
    /\ lastGet' = <<>>
    /\ todo' = sends
    /\ fin' = ret
    /\ IF sends = <<>>
       THEN Finish(frame, ret)
       ELSE /\ pc' = "send"
            /\ UNCHANGED <<lastReturn, alive, outbox>>

CanDispatch ==
    /\ opened
    /\ alive
    /\ pc = "idle"
    /\ nframes < MaxFrames

\* The frame handed to a handler, with what the history keeps of the moment:
\* the state and the length of the outbox before the handler ran, the
\* operation of the frame before it, and the last hello packet so far whose
\* nonce is not ours.
Frame(rpc, op, id, payload) ==
    [rpc |-> rpc, op |-> op, id |-> id, payload |-> payload, nilResponse |-> FALSE,
     stateBefore |-> state, outLen |-> Len(outbox), prev |-> cur.op,
     hello |-> IF op = "hello" /\ DeserializePacket(payload, ZeroHello).packet.Nonce # nonce
               THEN <<DeserializePacket(payload, ZeroHello).packet>>
               ELSE cur.hello]

Send(ch, ev) == [ch |-> ch, ev |-> ev]

This == "this"

\* Mutant: the state keeps the caller's slice instead of a 32-byte copy
SetState_KeepsSlice(height, prevSafeboxHash) ==
    [height |-> height, prevSafeboxHash |-> prevSafeboxHash]

\* SetState, lines 83-92: under the write lock, the new state
SetState(height, prevSafeboxHash) ==
    [height |-> height, prevSafeboxHash |-> CopyHash(prevSafeboxHash)]

\* SetState, line 85: the deferred send, made before the deferred Unlock
StateUpdateSend == Send("onStateUpdate", [conn |-> This])

\* Mutant: no comparison of the hello's nonce with our own
onHelloCommon_NoNonceCheck(payload) ==
    LET d == DeserializePacket(payload, ZeroHello)
    IN  [err   |-> NoError,
         set   |-> <<[height |-> d.packet.Block.Index,
                      prevSafeboxHash |-> CopyHash(d.packet.Block.PrevSafeboxHash)]>>,
         sends |-> <<Send("onStateUpdate", [conn |-> This])>> \o
                   [i \in 1..Len(d.packet.Peers) |-> Send("peerUpdates", d.packet.Peers[i])]]

\* onHelloCommon, lines 145-166: the error it returns, the state it sets
\* (<<>>: SetState is not called) and the channel sends it makes
onHelloCommon(payload) ==
    LET d == DeserializePacket(payload, ZeroHello)
    IN  IF d.err # NoError
        THEN [err |-> d.err, set |-> <<>>, sends |-> <<>>]
        ELSE IF d.packet.Nonce = nonce
        THEN [err |-> LoopbackError, set |-> <<>>, sends |-> <<>>]
        ELSE [err   |-> NoError,
              set   |-> <<SetState(d.packet.Block.Index, d.packet.Block.PrevSafeboxHash)>>,
              sends |-> <<StateUpdateSend>> \o
                        [i \in 1..Len(d.packet.Peers) |-> Send("peerUpdates", d.packet.Peers[i])]]

\* The hello this side sends: lines 70 and 173
OwnHello == generateHello(nonce, SerializeHeader(PendingBlock, FALSE), <<>>)

\* What onHelloRequest returns once onHelloCommon has returned `err`: lines 169-175
HelloReply(err) ==
    IF err # NoError
    THEN [out |-> <<>>, err |-> err]
    ELSE [out |-> <<OwnHello>>, err |-> NoError]

ApplyHello(r) ==
    IF r.set = <<>>
    THEN UNCHANGED <<state, stateLock>>
    ELSE /\ state' = r.set[1]
         /\ stateLock' = "locked"

\* Mutant: the hello request is sent whatever the direction
OnOpen_HelloAlways(outgoing) ==
    /\ ~opened
    /\ opened' = TRUE
    /\ isOutgoing' = outgoing
    /\ sendRequest("hello", <<OwnHello>>, "onHelloCommon")
    /\ UNCHANGED <<nonce, alive, state, stateLock, pc, todo, fin, lastReturn, cur,
                   nframes, chans, recv, chanCap, lastGet>>

\* OnOpen, lines 57-72
OnOpen(outgoing) ==
    /\ ~opened
    /\ opened' = TRUE
    /\ isOutgoing' = outgoing
    /\ IF outgoing
       THEN sendRequest("hello", <<OwnHello>>, "onHelloCommon")
       ELSE UNCHANGED <<outbox, pending, nextId>>
    /\ UNCHANGED <<nonce, alive, state, stateLock, pc, todo, fin, lastReturn, cur,
                   nframes, chans, recv, chanCap, lastGet>>

\* onHelloRequest, lines 168-176
onHelloRequest(payload) ==
    /\ CanDispatch
    /\ LET r == onHelloCommon(payload)
       IN  /\ ApplyHello(r)
           /\ Run(Frame("request", "hello", 0, payload), r.sends, HelloReply(r.err))
    /\ UNCHANGED <<nonce, isOutgoing, opened, pending, nextId, chanCap>>

\* The response to the hello of OnOpen: the engine pops the pending entry
\* and calls onHelloCommon, the callback given at line 71
onHelloResponse(payload) ==
    /\ CanDispatch
    /\ \E p \in pending :
           /\ p.cb = "onHelloCommon"
           /\ pending' = pending \ {p}
           /\ LET r == onHelloCommon(payload)
              IN  /\ ApplyHello(r)
                  /\ Run(Frame("response", "hello", p.id, payload), r.sends,
                         [out |-> <<>>, err |-> r.err])
    /\ UNCHANGED <<nonce, isOutgoing, opened, nextId, chanCap>>

\* StartBlocksDownloading, lines 101-105 and 129, called by the orchestrator
StartBlocksDownloading(from, to) ==
    /\ opened
    /\ alive
    /\ Cardinality({f \in 1..Len(outbox) : outbox[f].op = "getBlocks"}) < MaxDownloads
    /\ sendRequest("getBlocks", <<[FromIndex |-> from, ToIndex |-> to]>>, "onSuccess")
    /\ UNCHANGED <<nonce, isOutgoing, opened, alive, state, stateLock, pc, todo, fin,
                   lastReturn, cur, nframes, chans, recv, chanCap, lastGet>>

DoneSend(id) == Send("downloadingDone", [downloadingDone |-> id])

NewBlockEvent(block, shouldBroadcast) ==
    [conn |-> This, SerializedBlock |-> block, shouldBroadcast |-> shouldBroadcast]

\* Mutant: the Done signal is sent at the end of the loop, not deferred
onSuccess_DoneNotDeferred(id, nilResponse, payload) ==
    IF nilResponse
    THEN [sends |-> <<>>, err |-> GetBlocksFailed]
    ELSE LET d == DeserializePacket(payload, ZeroGetBlocksResponse)
         IN  [sends |-> [i \in 1..Len(d.packet.Blocks) |->
                           Send("onNewBlock", NewBlockEvent(d.packet.Blocks[i], FALSE))]
                        \o <<DoneSend(id)>>,
              err   |-> NoError]

\* onSuccess, lines 107-127: the sends of the callback and its return
onSuccess(id, nilResponse, payload) ==
    IF nilResponse
    THEN [sends |-> <<DoneSend(id)>>, err |-> GetBlocksFailed]
    ELSE LET d == DeserializePacket(payload, ZeroGetBlocksResponse)
         IN  IF d.err # NoError
             THEN [sends |-> <<DoneSend(id)>>, err |-> d.err]
             ELSE [sends |-> [i \in 1..Len(d.packet.Blocks) |->
                                Send("onNewBlock", NewBlockEvent(d.packet.Blocks[i], FALSE))]
                             \o <<DoneSend(id)>>,
                   err   |-> NoError]

\* The engine calls the callback of a pending getblocks request: with the
\* response that arrived, or with nil on timeout or close
onGetBlocksResponse(nilResponse, payload) ==
    /\ CanDispatch
    /\ \E p \in pending :
           /\ p.cb = "onSuccess"
           /\ pending' = pending \ {p}
           /\ LET r == onSuccess(p.id, nilResponse, payload)
              IN  Run([Frame("response", "getBlocks", p.id, payload) EXCEPT !.nilResponse = nilResponse],
                      r.sends, [out |-> <<>>, err |-> r.err])
    /\ UNCHANGED <<nonce, isOutgoing, opened, state, stateLock, nextId, chanCap>>

\* Mutant: the peer's error report is returned as an error
onErrorReport_ReturnsError(payload) ==
    /\ CanDispatch
    /\ LET d == DeserializePacket(payload, ZeroError)
       IN  Run(Frame("notification", "errorReport", 0, payload), <<>>,
               [out |-> <<>>, err |-> d.packet.Message])
    /\ UNCHANGED <<nonce, isOutgoing, opened, state, stateLock, pending, nextId, chanCap>>

\* onErrorReport, lines 214-223
onErrorReport(payload) ==
    /\ CanDispatch
    /\ LET d == DeserializePacket(payload, ZeroError)
       IN  Run(Frame("notification", "errorReport", 0, payload), <<>>,
               [out |-> <<>>, err |-> d.err])
    /\ UNCHANGED <<nonce, isOutgoing, opened, state, stateLock, pending, nextId, chanCap>>

\* onMessageRequest and onGetHeadersRequest, lines 225-233
onMessageRequest(op) ==
    /\ CanDispatch
    /\ Run(Frame("request", op, 0, <<>>), <<>>, [out |-> <<>>, err |-> NoError])
    /\ UNCHANGED <<nonce, isOutgoing, opened, state, stateLock, pending, nextId, chanCap>>

\* Mutant: the event is built with shouldBroadcast false
NewBlockNotification_NoBroadcast(payload) ==
    LET d == DeserializePacket(payload, ZeroNewBlock)
    IN  [sends |-> <<Send("onNewBlock", NewBlockEvent(d.packet.SerializedBlock, FALSE))>>,
         err   |-> NoError]

\* onNewBlockNotification, lines 235-249: its sends and its return
NewBlockNotification(payload) ==
    LET d == DeserializePacket(payload, ZeroNewBlock)
    IN  IF d.err # NoError
        THEN [sends |-> <<>>, err |-> d.err]
        ELSE [sends |-> <<Send("onNewBlock", NewBlockEvent(d.packet.SerializedBlock, TRUE))>>,
              err   |-> NoError]

onNewBlockNotification(payload) ==
    /\ CanDispatch
    /\ LET r == NewBlockNotification(payload)
       IN  Run(Frame("notification", "newBlock", 0, payload), r.sends,
               [out |-> <<>>, err |-> r.err])
    /\ UNCHANGED <<nonce, isOutgoing, opened, state, stateLock, pending, nextId, chanCap>>

\* onNewOperationsNotification, lines 251-263: its sends and its return
NewOperationsNotification(payload) ==
    LET d == DeserializePacket(payload, ZeroNewOperations)
    IN  IF d.err # NoError
        THEN [sends |-> <<>>, err |-> d.err]
        ELSE [sends |-> [i \in 1..Len(d.packet.Operations) |->
                           Send("onNewOperation", [conn |-> This, op |-> d.packet.Operations[i]])],
              err   |-> NoError]

onNewOperationsNotification(payload) ==
    /\ CanDispatch
    /\ LET r == NewOperationsNotification(payload)
       IN  Run(Frame("notification", "newOperations", 0, payload), r.sends,
               [out |-> <<>>, err |-> r.err])
    /\ UNCHANGED <<nonce, isOutgoing, opened, state, stateLock, pending, nextId, chanCap>>

\* Mutant: a send on a full channel is dropped (select with default)
ChanPut_DropWhenFull(ch, e) ==
    IF chanCap = 0
    THEN /\ recv' = [recv EXCEPT ![ch] = Append(@, e)]
         /\ UNCHANGED chans
    ELSE /\ chans' = IF Len(chans[ch]) < chanCap
                     THEN [chans EXCEPT ![ch] = Append(@, e)]
                     ELSE chans
         /\ UNCHANGED recv

\* ch <- ev.  With a buffer the send needs room; without one it completes
\* when the consumer takes the value.
ChanPut(ch, e) ==
    IF chanCap = 0
    THEN /\ recv' = [recv EXCEPT ![ch] = Append(@, e)]
         /\ UNCHANGED chans
    ELSE /\ Len(chans[ch]) < chanCap
         /\ chans' = [chans EXCEPT ![ch] = Append(@, e)]
         /\ UNCHANGED recv

\* The peer thread completes the channel send it is blocked on and runs on
\* to its next send, or returns.  SetState's deferred Unlock follows its send.
ChannelSend ==
    /\ pc = "send"
    /\ todo # <<>>
    /\ ChanPut(Head(todo).ch, [ev |-> <<Head(todo).ev>>, frame |-> nframes, by |-> cur.op])
    /\ stateLock' = IF Head(todo).ch = "onStateUpdate" THEN "unlocked" ELSE stateLock
    /\ todo' = Tail(todo)
    /\ IF Tail(todo) = <<>>
       THEN Finish(cur, fin)
       ELSE UNCHANGED <<pc, lastReturn, alive, outbox>>
    /\ UNCHANGED <<nonce, isOutgoing, opened, state, fin, cur, nframes, pending, nextId,
                   chanCap, lastGet>>

\* The orchestrator's consumer takes the next event of a channel
Receive(ch) ==
    /\ chans[ch] # <<>>
    /\ recv' = IF Head(chans[ch]).frame = nframes
               THEN [recv EXCEPT ![ch] = Append(@, Head(chans[ch]))]
               ELSE recv
    /\ chans' = [chans EXCEPT ![ch] = Tail(@)]
    /\ UNCHANGED <<nonce, isOutgoing, opened, alive, state, stateLock, pc, todo, fin,
                   lastReturn, cur, nframes, outbox, pending, nextId, chanCap, lastGet>>

\* GetState, lines 95-99: under the read lock
GetState ==
    /\ stateLock = "unlocked"
    /\ lastGet' = <<[height |-> state.height, prevSafeboxHash |-> state.prevSafeboxHash]>>
    /\ UNCHANGED <<nonce, isOutgoing, opened, alive, state, stateLock, pc, todo, fin,
                   lastReturn, cur, nframes, outbox, pending, nextId, chans, recv, chanCap>>

ConnNext ==
    \/ \E outgoing \in BOOLEAN : OnOpen(outgoing) /\ UNCHANGED exceptConn
    \/ \E payload \in HelloPayloads : onHelloRequest(payload) /\ UNCHANGED exceptConn
    \/ \E payload \in HelloPayloads : onHelloResponse(payload) /\ UNCHANGED exceptConn
    \/ \E r \in DownloadRanges : StartBlocksDownloading(r[1], r[2]) /\ UNCHANGED exceptConn
    \/ \E payload \in GetBlocksResponsePayloads : onGetBlocksResponse(FALSE, payload) /\ UNCHANGED exceptConn
    \/ onGetBlocksResponse(TRUE, <<>>) /\ UNCHANGED exceptConn
    \/ \E payload \in ErrorPayloads : onErrorReport(payload) /\ UNCHANGED exceptConn
    \/ \E op \in {"message", "getHeaders"} : onMessageRequest(op) /\ UNCHANGED exceptConn
    \/ \E payload \in NewBlockPayloads : onNewBlockNotification(payload) /\ UNCHANGED exceptConn
    \/ \E payload \in NewOperationsPayloads : onNewOperationsNotification(payload) /\ UNCHANGED exceptConn
    \/ ChannelSend /\ UNCHANGED exceptConn
    \/ \E ch \in Chans : Receive(ch) /\ UNCHANGED exceptConn
    \/ GetState /\ UNCHANGED exceptConn


(***************************************************************************)
(* The codec: strucWalker, Serialize, Deserialize                          *)
(*                                                                         *)
(* A type is <<"u8">>, <<"u16">>, <<"u32">>, <<"u64">>, <<"str">>,         *)
(* <<"bytes">> ([]byte), <<"raw">> (the struct BytesWithoutLengthPrefix),  *)
(* <<"iface">> (a Serializable interface field holding a                   *)
(* *BytesWithoutLengthPrefix), <<"struct", fields>> or <<"list", elem>>.   *)
(* Its values: a number; a sequence of bytes for str, bytes, raw and       *)
(* iface; the tuple of the fields; the sequence of the elements.           *)
(* A path is the sequence of field and element indices from the root.      *)
(***************************************************************************)
MaxList == 2

Zeros(n) == [i \in 1..n |-> 0]

\* reflect.Kind
Kind(t) ==
    CASE t[1] \in {"struct", "raw"} -> "Struct"
      [] t[1] \in {"list", "bytes"} -> "Slice"
      [] t[1] = "str" -> "String"
      [] t[1] = "iface" -> "Interface"
      [] OTHER -> t[1]

\* el.Type().Elem().Kind() == reflect.Uint8
IsByteSlice(t) == t[1] = "bytes"

\* _, ok := el.Addr().Interface().(Serializable)
IsSerializable(t) == t[1] = "raw"

Width(t) == CASE t[1] = "u8" -> 1 [] t[1] = "u16" -> 2 [] t[1] = "u32" -> 4 [] t[1] = "u64" -> 8

RECURSIVE TypeAt(_, _)
TypeAt(t, path) ==
    IF path = <<>> THEN t
    ELSE CASE t[1] = "struct" -> TypeAt(t[2][Head(path)], Tail(path))
           [] t[1] = "list" -> TypeAt(t[2], Tail(path))
           [] t[1] = "raw" -> TypeAt(<<"bytes">>, Tail(path))
           [] t[1] = "bytes" -> <<"u8">>

RECURSIVE At(_, _, _)
At(t, v, path) ==
    IF path = <<>> THEN v
    ELSE CASE t[1] = "struct" -> At(t[2][Head(path)], v[Head(path)], Tail(path))
           [] t[1] = "list" -> At(t[2], v[Head(path)], Tail(path))
           [] t[1] = "raw" -> At(<<"bytes">>, v, Tail(path))
           [] t[1] = "bytes" -> v[Head(path)]

RECURSIVE Put(_, _, _, _)
Put(t, v, path, x) ==
    IF path = <<>> THEN x
    ELSE CASE t[1] = "struct" ->
                [v EXCEPT ![Head(path)] = Put(t[2][Head(path)], v[Head(path)], Tail(path), x)]
           [] t[1] = "list" ->
                [v EXCEPT ![Head(path)] = Put(t[2], v[Head(path)], Tail(path), x)]
           [] t[1] = "raw" -> Put(<<"bytes">>, v, Tail(path), x)
           [] t[1] = "bytes" -> [v EXCEPT ![Head(path)] = x]

\* The zero value of a type
RECURSIVE ZeroOf(_)
ZeroOf(t) ==
    CASE t[1] \in {"u8", "u16", "u32", "u64"} -> 0
      [] t[1] = "struct" -> [i \in 1..Len(t[2]) |-> ZeroOf(t[2][i])]
      [] OTHER -> <<>>

\* The destination Deserialize is given for a value like v: the zero value,
\* or with `presized` the zero value whose unprefixed byte fields the caller
\* has allocated to the lengths of v's
RECURSIVE Destination(_, _, _)
Destination(t, v, presized) ==
    CASE t[1] = "struct" -> [i \in 1..Len(t[2]) |-> Destination(t[2][i], v[i], presized)]
      [] t[1] = "raw" -> IF presized THEN Zeros(Len(v)) ELSE <<>>
      [] OTHER -> ZeroOf(t)

\* v.NumField() or v.Len()
Total(t, v) ==
    CASE t[1] = "struct" -> Len(t[2])
      [] t[1] = "raw" -> 1
      [] OTHER -> Len(v)

\* v.CanAddr(): the root when a pointer was given, the fields of an
\* addressable struct, and every element of a slice
CanAddr(rootAddr, t, path) ==
    \/ rootAddr
    \/ \E n \in 0..(Len(path) - 1) : Kind(TypeAt(t, SubSeq(path, 1, n))) = "Slice"

\* binary.Write(w, binary.LittleEndian, n) for an unsigned integer of `width` bytes
RECURSIVE LittleEndian(_, _)
LittleEndian(n, width) ==
    IF width = 0 THEN <<>> ELSE <<n % 256>> \o LittleEndian(n \div 256, width - 1)

RECURSIVE FromLittleEndian(_)
FromLittleEndian(bs) ==
    IF bs = <<>> THEN 0 ELSE bs[1] + 256 * FromLittleEndian(Tail(bs))

\* binary.Read of n bytes: io.ReadFull takes what is there; with fewer than n
\* bytes left it fails, and the bytes are gone
ReadFull(buf, n) ==
    IF Len(buf) >= n
    THEN [ok |-> TRUE, bytes |-> SubSeq(buf, 1, n), rest |-> SubSeq(buf, n + 1, Len(buf))]
    ELSE [ok |-> FALSE, bytes |-> <<>>, rest |-> <<>>]

\* binary.Read(r, binary.LittleEndian, &val) with the error ignored: val
\* keeps its zero when the read fails
ReadUint(buf, width) ==
    LET r == ReadFull(buf, width)
    IN  [val |-> IF r.ok THEN FromLittleEndian(r.bytes) ELSE 0, rest |-> r.rest]

\* make([]byte, n) and binary.Read into it, the error ignored
ReadBytes(buf, n) ==
    LET r == ReadFull(buf, n)
    IN  [val |-> IF r.ok THEN r.bytes ELSE Zeros(n), rest |-> r.rest]

\* The callback of Serialize, lines 167-205, on the value at `path`
SerializeCallback(c, path) ==
    LET t == TypeAt(c.type, path)
        v == At(c.type, c.root, path)
        out == CASE t[1] \in {"u8", "u16", "u32", "u64"} -> LittleEndian(v, Width(t))
                 [] t[1] \in {"str", "bytes"} -> LittleEndian(Len(v) % 65536, 2) \o v
                 [] t[1] = "list" -> LittleEndian(Len(v), 4)
                 [] t[1] \in {"raw", "iface"} -> v
    IN  [c EXCEPT !.buf = @ \o out, !.log = Append(@, path)]

\* BytesWithoutLengthPrefix.Deserialize, lines 47-50, on a bytes.Buffer:
\* Read fills this.Bytes, as long as it is, with what is there
ReadInto(dest, buf) ==
    IF Len(dest) = 0 THEN [err |-> FALSE, val |-> dest, rest |-> buf]
    ELSE IF buf = <<>> THEN [err |-> TRUE, val |-> dest, rest |-> buf]
    ELSE LET n == IF Len(buf) < Len(dest) THEN Len(buf) ELSE Len(dest)
         IN  [err  |-> FALSE,
              val  |-> [i \in 1..Len(dest) |-> IF i <= n THEN buf[i] ELSE dest[i]],
              rest |-> SubSeq(buf, n + 1, Len(buf))]

\* The callback of Deserialize, lines 211-259, on the value at `path`
DeserializeCallback(c, path) ==
    LET t == TypeAt(c.type, path)
        logged == [c EXCEPT !.log = Append(@, path)]
    IN  CASE t[1] \in {"u8", "u16", "u32", "u64"} ->
               LET r == ReadUint(c.buf, Width(t))
               IN  [logged EXCEPT !.root = Put(c.type, c.root, path, r.val), !.buf = r.rest]
          [] t[1] \in {"str", "bytes"} ->
               LET n == ReadUint(c.buf, 2)
                   r == ReadBytes(n.rest, n.val)
               IN  [logged EXCEPT !.root = Put(c.type, c.root, path, r.val), !.buf = r.rest]
          [] t[1] = "list" ->
               LET n == ReadUint(c.buf, 4)
               IN  [logged EXCEPT !.root = Put(c.type, c.root, path,
                                               [i \in 1..n.val |-> ZeroOf(t[2])]),
                                  !.buf = n.rest]
          [] t[1] = "raw" ->
               LET r == ReadInto(At(c.type, c.root, path), c.buf)
               IN  IF r.err
                   THEN [logged EXCEPT !.panic = TRUE]
                   ELSE [logged EXCEPT !.root = Put(c.type, c.root, path, r.val), !.buf = r.rest]
          [] t[1] = "iface" -> [logged EXCEPT !.panic = TRUE]

Callback(c, path) ==
    IF c.panic THEN c
    ELSE IF c.serialize THEN SerializeCallback(c, path) ELSE DeserializeCallback(c, path)

Pair(a, b) == [a |-> a, b |-> b]

\* step, lines 90-128: on element i of the value at `path`.  Returns the
\* context and whether the loop over the elements goes on.
step(c, i, path) ==
    LET el == Append(path, i)
        t  == TypeAt(c.type, el)
        pushed(d) == [d EXCEPT !.stack = @ \o <<Pair(path, i + 1), Pair(el, 1)>>]
    IN  CASE Kind(t) = "Struct" ->
               IF CanAddr(c.addr, c.type, el) /\ IsSerializable(t)
               THEN [c |-> Callback(c, el), more |-> TRUE]
               ELSE [c |-> pushed(c), more |-> FALSE]
          [] Kind(t) = "Slice" ->
               IF IsByteSlice(t)
               THEN [c |-> Callback(c, el), more |-> TRUE]
               ELSE [c |-> pushed(Callback(c, el)), more |-> FALSE]
          [] OTHER -> [c |-> Callback(c, el), more |-> TRUE]

\* The loops at lines 146-150 and 153-157, from element i on
RECURSIVE Elements(_, _, _)
Elements(c, i, path) ==
    IF c.panic \/ i > Total(TypeAt(c.type, path), At(c.type, c.root, path))
    THEN c
    ELSE LET r == step(c, i, path)
         IN  IF r.more THEN Elements(r.c, i + 1, path) ELSE r.c

\* One turn of the loop at lines 130-161: the last pair is taken off wayBack
\* and its value walked from its index on
WalkTurn(c) ==
    LET current == c.stack[Len(c.stack)]
        popped  == [c EXCEPT !.stack = SubSeq(@, 1, Len(@) - 1)]
        t       == TypeAt(c.type, current.a)
    IN  CASE Kind(t) = "Struct" ->
               IF CanAddr(c.addr, c.type, current.a) /\ IsSerializable(t)
               THEN Callback(popped, current.a)
               ELSE Elements(popped, current.b, current.a)
          [] Kind(t) = "Slice" -> Elements(popped, current.b, current.a)
          [] OTHER -> Callback(popped, current.a)

\* ---- the values under test
BytesUnderTest == {<<>>, <<7>>, <<255, 0>>}

Struct(fields) == <<"struct", fields>>

List(elem) == <<"list", elem>>

TypesUnderTest ==
    << <<"u16">>,
       <<"str">>,
       Struct(<< <<"u8">>, <<"u16">>, <<"u32">>, <<"u64">> >>),
       Struct(<< <<"str">>, <<"bytes">> >>),
       Struct(<< Struct(<< <<"u16">>, <<"str">> >>), <<"u8">> >>),
       Struct(<< List(Struct(<< <<"u8">>, <<"bytes">> >>)), <<"u16">> >>),
       Struct(<< List(<<"u16">>), List(<<"bytes">>) >>),
       Struct(<< <<"raw">>, <<"u8">> >>),
       Struct(<< <<"u8">>, <<"iface">> >>),
       Struct(<< List(<<"raw">>) >>),
       List(Struct(<< <<"u8">> >>)),
       <<"bytes">>,
       <<"raw">> >>

RECURSIVE ValuesOf(_)
RECURSIVE Tuples(_, _)
RECURSIVE Lists(_, _)
\* the tuples of values of the first n of the fields
Tuples(fields, n) ==
    IF n = 0 THEN {<<>>}
    ELSE {Append(head, x) : head \in Tuples(fields, n - 1), x \in ValuesOf(fields[n])}

Lists(elem, n) ==
    IF n = 0 THEN {<<>>}
    ELSE Lists(elem, n - 1)
         \cup {Append(q, x) : q \in {l \in Lists(elem, n - 1) : Len(l) = n - 1},
                              x \in ValuesOf(elem)}

ValuesOf(t) ==
    CASE t[1] = "u8" -> {0, 255}
      [] t[1] = "u16" -> {1, 65535}
      [] t[1] = "u32" -> {65536, 2147483647}
      [] t[1] = "u64" -> {0, 16909060}
      [] t[1] \in {"str", "bytes", "raw", "iface"} -> BytesUnderTest
      [] t[1] = "struct" -> Tuples(t[2], Len(t[2]))
      [] t[1] = "list" -> Lists(t[2], MaxList)

CdStart(t, v, addr, presized) ==
    /\ cdType = t
    /\ cdValue = v
    /\ cdAddr = addr
    /\ cdPresized = presized
    /\ cdMode = "serialize"
    /\ cdRoot = v
    /\ cdStack = <<Pair(<<>>, 1)>>
    /\ cdBuf = <<>>
    /\ cdLog = <<>>
    /\ cdCut = FALSE
    /\ cdErr = <<>>

CdInit ==
    \E n \in 1..Len(TypesUnderTest) :
        \E v \in ValuesOf(TypesUnderTest[n]), addr \in BOOLEAN, presized \in BOOLEAN :
            CdStart(TypesUnderTest[n], v, addr, presized)

Context(serialize, addr) ==
    [type |-> cdType, root |-> cdRoot, stack |-> cdStack, buf |-> cdBuf, log |-> cdLog,
     addr |-> addr, serialize |-> serialize, panic |-> FALSE]

\* One turn of strucWalker's loop; when wayBack is empty the walk is over
Walk(serialize, addr, over) ==
    LET c == WalkTurn(Context(serialize, addr))
    IN  /\ cdRoot' = c.root
        /\ cdStack' = c.stack
        /\ cdBuf' = c.buf
        /\ cdLog' = c.log
        /\ cdMode' = IF c.panic THEN "panic"
                     ELSE IF c.stack = <<>> THEN over
                     ELSE cdMode
        \* Deserialize ends in `return nil`, line 260
        /\ cdErr' = IF ~c.panic /\ c.stack = <<>> /\ over = "done" THEN <<NoError>> ELSE cdErr
        /\ UNCHANGED <<cdType, cdValue, cdAddr, cdPresized, cdCut>>

\* Serialize, lines 164-208
Serialize ==
    /\ cdMode = "serialize"
    /\ Walk(TRUE, cdAddr, "serialized")

\* Deserialize(&destination, bytes.NewBuffer(serialized)), lines 210-261: the start
DeserializeStart ==
    /\ cdMode = "serialized"
    /\ cdMode' = "deserialize"
    /\ cdRoot' = Destination(cdType, cdValue, cdPresized)
    /\ cdStack' = <<Pair(<<>>, 1)>>
    /\ cdLog' = <<>>
    /\ UNCHANGED <<cdType, cdValue, cdAddr, cdPresized, cdBuf, cdCut, cdErr>>

\* Deserialize: a turn of the walk; the destination is behind a pointer
Deserialize ==
    /\ cdMode = "deserialize"
    /\ Walk(FALSE, TRUE, "done")

CdNext ==
    \/ Serialize /\ UNCHANGED exceptCd
    \/ DeserializeStart /\ UNCHANGED exceptCd
    \/ Deserialize /\ UNCHANGED exceptCd

\* The reader Deserialize is given ends early: it holds the first n bytes
\* of an encoding, n less than its length
Truncate ==
    /\ cdMode = "serialized"
    /\ ~cdCut
    /\ \E n \in 0..(Len(cdBuf) - 1) : cdBuf' = SubSeq(cdBuf, 1, n)
    /\ cdCut' = TRUE
    /\ UNCHANGED <<cdType, cdValue, cdAddr, cdPresized, cdMode, cdRoot, cdStack, cdLog, cdErr>>

DecodeNext ==
    \/ Serialize /\ UNCHANGED exceptCd
    \/ Truncate /\ UNCHANGED exceptCd
    \/ DeserializeStart /\ UNCHANGED exceptCd
    \/ Deserialize /\ UNCHANGED exceptCd

(***************************************************************************)
(* SerializeBytes and DeserializeBytes                                     *)
(***************************************************************************)
EOF == "EOF"

ErrUnexpectedEOF == "unexpected EOF"

\* SerializeBytes, lines 52-59
SerializeBytes(data) ==
    LET dataLen == Len(data)
    IN  <<dataLen % 256, (dataLen \div 256) % 256>> \o data

\* The value of an int16 with the bits of the uint16 u
Int16(u) == IF u >= 32768 THEN u - 65536 ELSE u

\* The error of binary.Read for n bytes from a reader holding `wire`
ReadError(wire, n) ==
    IF Len(wire) >= n THEN NoError
    ELSE IF wire = <<>> THEN EOF
    ELSE ErrUnexpectedEOF

\* ---- the byte sequences under test: the lengths around the sign bit of
\* the prefix and around its bytes' boundaries
SbLengths == {0, 1, 2, 255, 256, 257, 32767, 32768, 65535}

SbFills == {0, 1, 255}

SbStart(data) ==
    /\ sbData = data
    /\ sbCut = FALSE
    /\ sbPc = "start"
    /\ sbWire = <<>>
    /\ sbSize = 0
    /\ sbOut = <<>>

SbInit == \E n \in SbLengths, b \in SbFills : SbStart(Fill(n, b))

\* SerializeBytes(data), whose result, or the first n bytes of it, is what
\* the reader holds
SbSerialize ==
    /\ sbPc = "start"
    /\ \E n \in {0, 1, 2, Len(sbData) + 1, Len(sbData) + 2} :
           /\ n <= Len(sbData) + 2
           /\ sbWire' = SubSeq(SerializeBytes(sbData), 1, n)
           /\ sbCut' = (n < Len(sbData) + 2)
    /\ sbPc' = "serialized"
    /\ UNCHANGED <<sbData, sbSize, sbOut>>

\* DeserializeBytes, lines 62-65: var size int16; binary.Read(..., &size)
SbReadSize ==
    /\ sbPc = "serialized"
    /\ IF ReadError(sbWire, 2) = NoError
       THEN /\ sbSize' = Int16(FromLittleEndian(SubSeq(sbWire, 1, 2)))
            /\ sbWire' = SubSeq(sbWire, 3, Len(sbWire))
            /\ sbPc' = "sized"
            /\ UNCHANGED sbOut
       ELSE /\ sbOut' = <<[data |-> <<>>, err |-> ReadError(sbWire, 2)]>>
            /\ sbWire' = <<>>
            /\ sbPc' = "done"
            /\ UNCHANGED sbSize
    /\ UNCHANGED <<sbData, sbCut>>

\* DeserializeBytes, line 66: data = make([]byte, size), which panics on a
\* negative size
SbMake ==
    /\ sbPc = "sized"
    /\ sbPc' = IF sbSize < 0 THEN "panic" ELSE "made"
    /\ UNCHANGED <<sbData, sbCut, sbWire, sbSize, sbOut>>

\* DeserializeBytes, lines 67-70: binary.Read(..., &data) and the return
SbReadData ==
    /\ sbPc = "made"
    /\ IF ReadError(sbWire, sbSize) = NoError
       THEN /\ sbOut' = <<[data |-> SubSeq(sbWire, 1, sbSize), err |-> NoError]>>
            /\ sbWire' = SubSeq(sbWire, sbSize + 1, Len(sbWire))
       ELSE /\ sbOut' = <<[data |-> <<>>, err |-> ReadError(sbWire, sbSize)]>>
            /\ sbWire' = <<>>
    /\ sbPc' = "done"
    /\ UNCHANGED <<sbData, sbCut, sbSize>>

SbNext ==
    \/ SbSerialize /\ UNCHANGED exceptSb
    \/ SbReadSize /\ UNCHANGED exceptSb
    \/ SbMake /\ UNCHANGED exceptSb
    \/ SbReadData /\ UNCHANGED exceptSb


(***************************************************************************)
(* NewBlock and GetOperationsHash                                          *)
(*                                                                         *)
(* A uint64 is its four 16-bit limbs, the lowest first.  SHA-256 is a      *)
(* constructor: the digest of a message is the message under the tag       *)
(* "sha256", so that two digests are equal exactly when the messages are.  *)
(* A message is the sequence of its parts.                                 *)
(***************************************************************************)
MaxBlocks == 2

MaxBlockOps == 2

AccountsPerBlock == 5

\* The n lowest limbs of a + b + carry
RECURSIVE AddLimbs(_, _, _, _)
AddLimbs(a, b, carry, n) ==
    IF n = 0 THEN <<>>
    ELSE LET sum == a[1] + b[1] + carry
         IN  <<sum % Limb>> \o AddLimbs(Tail(a), Tail(b), sum \div Limb, n - 1)

U64Of(n) == <<n % Limb, n \div Limb, 0, 0>>

\* fee += ..., on uint64: the carry out of the top limb is lost
U64Add(a, b) == AddLimbs(a, b, 0, 4)

Sha256(message) == <<"sha256", message>>

\* it.SerializeUnderlying(h): the bytes of the operation
SerializeUnderlying(op) == <<"op", op.id>>

\* ---- the operations under test: a small fee, and two fees whose sums
\* pass 2^64
OperationsUnderTest ==
    {[id |-> 1, Fee |-> U64Of(5)],
     [id |-> 2, Fee |-> <<0, 0, 0, 32768>>],
     [id |-> 3, Fee |-> <<65535, 65535, 65535, 65535>>]}

RECURSIVE OperationLists(_)
OperationLists(n) ==
    IF n = 0 THEN {<<>>}
    ELSE OperationLists(n - 1)
         \cup {Append(q, op) : q \in {l \in OperationLists(n - 1) : Len(l) = n - 1},
                               op \in OperationsUnderTest}

ZeroMeta == [Index |-> U32Of(0), MinerValid |-> TRUE, Operations |-> <<>>]

BlStart ==
    /\ blChain = <<>>
    /\ blPc = "idle"
    /\ blMeta = ZeroMeta
    /\ blIndex = 1
    /\ blFee = U64Of(0)
    /\ blOperations = <<>>
    /\ blHash = <<>>
    /\ blAccounts = <<>>
    /\ blErr = NoError

\* NewBlock, lines 115-117: the call, for the block after the chain's last
NewBlock(minerValid, operations) ==
    /\ blPc = "idle"
    /\ Len(blChain) < MaxBlocks
    /\ blMeta' = [Index |-> U32Of(Len(blChain)), MinerValid |-> minerValid,
                  Operations |-> operations]
    /\ blFee' = U64Of(0)
    /\ blOperations' = <<>>
    /\ blIndex' = 1
    /\ blPc' = "fee"
    /\ blErr' = NoError
    /\ UNCHANGED <<blChain, blHash, blAccounts>>

InvalidMiner == "invalid public key"

\* NewBlock, lines 119-128: a turn of the loop over meta.Operations; after
\* it crypto.NewPublic(meta.Miner), and GetOperationsHash is entered
FeeLoop ==
    /\ blPc = "fee"
    /\ IF blIndex <= Len(blMeta.Operations)
       THEN /\ blOperations' = Append(blOperations, blMeta.Operations[blIndex])
            /\ blFee' = U64Add(blFee, blMeta.Operations[blIndex].Fee)
            /\ blIndex' = blIndex + 1
            /\ UNCHANGED <<blPc, blHash, blErr>>
       ELSE IF ~blMeta.MinerValid
       THEN /\ blErr' = InvalidMiner
            /\ blPc' = "idle"
            /\ UNCHANGED <<blOperations, blFee, blIndex, blHash>>
       ELSE \* GetOperationsHash, line 106
            /\ blHash' = Sha256(<<>>)
            /\ blIndex' = 1
            /\ blPc' = "hash"
            /\ UNCHANGED <<blOperations, blFee, blErr>>
    /\ UNCHANGED <<blChain, blMeta, blAccounts>>

\* Mutant: the accumulator is not carried into the next digest
HashTurn_WithoutAccumulator(hash, it) ==
    Sha256(<<Sha256(<<>>), Sha256(SerializeUnderlying(it))>>)

\* GetOperationsHash, lines 108-110: h.Sum(hash[:]) is hash followed by
\* the digest of what was written to h
HashTurn(hash, it) ==
    Sha256(<<hash, Sha256(SerializeUnderlying(it))>>)

\* GetOperationsHash, lines 107-112: a turn of the loop; after it the
\* block is made, with make([]accounter.Account, 5)
HashLoop ==
    /\ blPc = "hash"
    /\ IF blIndex <= Len(blOperations)
       THEN /\ blHash' = HashTurn(blHash, blOperations[blIndex])
            /\ blIndex' = blIndex + 1
            /\ UNCHANGED <<blPc, blAccounts>>
       ELSE /\ blAccounts' = <<>>
            /\ blIndex' = 1
            /\ blPc' = "accounts"
            /\ UNCHANGED blHash
    /\ UNCHANGED <<blChain, blMeta, blFee, blOperations, blErr>>

\* NewBlock, lines 142-148: the account at position i (from 0)
NewAccount(i, index) ==
    [Number |-> U32Add(U32Of(i), index), Balance |-> U64Of(0), UpdatedIndex |-> index,
     Operations |-> 0]

\* NewBlock, lines 140-153: a turn of the loop over block.Accounts; after
\* it the block is returned
AccountsLoop ==
    /\ blPc = "accounts"
    /\ IF blIndex <= AccountsPerBlock
       THEN /\ blAccounts' = Append(blAccounts, NewAccount(blIndex - 1, blMeta.Index))
            /\ blIndex' = blIndex + 1
            /\ UNCHANGED <<blPc, blChain>>
       ELSE /\ blChain' = Append(blChain, [Meta |-> blMeta, Operations |-> blOperations,
                                           OperationsHash |-> blHash, Fee |-> blFee,
                                           Accounts |-> blAccounts])
            /\ blPc' = "idle"
            /\ UNCHANGED <<blAccounts, blIndex>>
    /\ UNCHANGED <<blMeta, blFee, blOperations, blHash, blErr>>

BlNext ==
    \/ \E minerValid \in BOOLEAN, operations \in OperationLists(MaxBlockOps) : NewBlock(minerValid, operations) /\ UNCHANGED exceptBl
    \/ FeeLoop /\ UNCHANGED exceptBl
    \/ HashLoop /\ UNCHANGED exceptBl
    \/ AccountsLoop /\ UNCHANGED exceptBl

(***************************************************************************)
(* The ChangeKey operation                                                 *)
(***************************************************************************)
MaxOperationId == 2

MaxBlockIndex == 1

\* a < b on uint64
U64Lt(a, b) ==
    \E k \in 1..4 : a[k] < b[k] /\ \A m \in (k + 1)..4 : a[m] = b[m]

AccountNumbers == {1, 2}

BalancesUnderTest == {U64Of(0), U64Of(5), <<0, 0, 1, 0>>}

FeesUnderTest == {U64Of(0), U64Of(5), U64Of(6), <<1, 0, 1, 0>>}

KeysUnderTest == {<<1>>, <<2>>, <<>>}

\* An account as getAccount returns it
Account(number, balance, operations) ==
    [Number |-> number, Balance |-> balance, Operations |-> operations, PublicKey |-> <<9>>]

AccountsUnderTest ==
    {[n \in AccountNumbers |-> IF n = 1 THEN first ELSE <<>>] :
        first \in {<<>>} \cup {<<Account(1, b, k)>> : b \in BalancesUnderTest,
                                                     k \in 0..(MaxOperationId - 1)}}
    \cup {[n \in AccountNumbers |-> <<Account(n, U64Of(5), 0)>>]}

\* crypto.NewPublic(bytes): the key, or an error on bytes that are no key
\* (here: on no bytes)
NewPublic(bytes) ==
    IF bytes = <<>> THEN [public |-> <<>>, err |-> InvalidMiner]
    ELSE [public |-> <<bytes>>, err |-> NoError]

CkStart(accounts, op) ==
    /\ ckAccounts = accounts
    /\ ckOp = op
    /\ ckPc = "start"
    /\ ckContext = <<>>
    /\ ckErr = NoError
    /\ ckResult = <<>>

CkIdle ==
    CkStart([n \in AccountNumbers |-> <<>>],
            [Source |-> 1, OperationId |-> 0, Fee |-> U64Of(0), NewPublickey |-> <<>>])

CkInit ==
    \E accounts \in AccountsUnderTest, source \in AccountNumbers,
       id \in 0..(MaxOperationId + 1), fee \in FeesUnderTest, key \in KeysUnderTest :
        CkStart(accounts, [Source |-> source, OperationId |-> id, Fee |-> fee,
                           NewPublickey |-> key])

SourceNotFound == "Source account not found"

InsufficientBalance == "Insufficient balance"

\* Mutant: the balance is not compared with the fee
Validate_NoBalanceCheck(this, getAccount) ==
    LET source == getAccount[this.Source]
        public == NewPublic(this.NewPublickey)
    IN  IF source = <<>> THEN [context |-> <<>>, err |-> SourceNotFound]
        ELSE IF public.err # NoError THEN [context |-> <<>>, err |-> public.err]
        ELSE [context |-> <<[Source |-> source[1], NewPublic |-> public.public[1]]>>,
              err |-> NoError]

\* ChangeKey.Validate, lines 63-78
Validate(this, getAccount) ==
    LET source == getAccount[this.Source]
        public == NewPublic(this.NewPublickey)
    IN  IF source = <<>> THEN [context |-> <<>>, err |-> SourceNotFound]
        ELSE IF U64Lt(source[1].Balance, this.Fee)
        THEN [context |-> <<>>, err |-> InsufficientBalance]
        ELSE IF public.err # NoError THEN [context |-> <<>>, err |-> public.err]
        ELSE [context |-> <<[Source |-> source[1], NewPublic |-> public.public[1]]>>,
              err |-> NoError]

\* Account.KeyChange and Account.BalanceSub: the deltas they return
KeyChange(account, public, index) ==
    <<[delta |-> "KeyChange", public |-> public, index |-> index]>>

BalanceSub(account, amount, index) ==
    <<[delta |-> "BalanceSub", amount |-> amount, index |-> index]>>

\* ChangeKey.Apply, lines 80-87
Apply(this, index, context) ==
    LET params == context[1]
        first  == KeyChange(params.Source, params.NewPublic, index)
    IN  [result |-> [n \in {params.Source.Number} |->
                        first \o BalanceSub(params.Source, this.Fee, index)],
         err |-> NoError]

CkValidate ==
    /\ ckPc = "start"
    /\ ckContext' = Validate(ckOp, ckAccounts).context
    /\ ckErr' = Validate(ckOp, ckAccounts).err
    /\ ckPc' = IF Validate(ckOp, ckAccounts).err = NoError THEN "validated" ELSE "rejected"
    /\ UNCHANGED <<ckAccounts, ckOp, ckResult>>

CkApply(index) ==
    /\ ckPc = "validated"
    /\ ckResult' = <<Apply(ckOp, index, ckContext).result>>
    /\ ckErr' = Apply(ckOp, index, ckContext).err
    /\ ckPc' = "applied"
    /\ UNCHANGED <<ckAccounts, ckOp, ckContext>>

CkNext ==
    \/ CkValidate /\ UNCHANGED exceptCk
    \/ \E index \in 0..MaxBlockIndex : CkApply(index) /\ UNCHANGED exceptCk

(***************************************************************************)
(* SetState and GetState: the peer thread, the state lock, the             *)
(* onStateUpdate channel and the consumer that drains it                   *)
(***************************************************************************)
MaxSetStates == 3

HashesUnderTest == {<<>>, Fill(HashLen - 1, 1), Fill(HashLen, 2), Fill(HashLen + 1, 3)}

StStart(cap) ==
    /\ stHeap = <<Fill(HashLen, 0)>>
    /\ stArg = 0
    /\ stGiven = <<>>
    /\ stHeight = 0
    /\ stState = [height |-> 0, prevSafeboxHash |-> 1]
    /\ stLock = "unlocked"
    /\ stPeer = "idle"
    /\ stChan = 0
    /\ stCap = cap
    /\ stConsumer = "receive"
    /\ stGot = <<>>
    /\ stCalls = 0

StInit == \E cap \in {0, MaxChanCap} : StStart(cap)

\* The peer thread calls SetState(height, prevSafeboxHash) with a buffer of
\* its own
SetStateCall(height, prevSafeboxHash) ==
    /\ stPeer = "idle"
    /\ stCalls < MaxSetStates
    /\ stHeap' = Append(stHeap, prevSafeboxHash)
    /\ stArg' = Len(stHeap) + 1
    /\ stGiven' = prevSafeboxHash
    /\ stHeight' = height
    /\ stCalls' = stCalls + 1
    /\ stPeer' = "lock"
    /\ UNCHANGED <<stState, stLock, stChan, stCap, stConsumer, stGot>>

\* SetState, line 83: this.stateLock.Lock()
SetStateLock ==
    /\ stPeer = "lock"
    /\ stLock = "unlocked"
    /\ stLock' = "locked"
    /\ stPeer' = "body"
    /\ UNCHANGED <<stHeap, stArg, stGiven, stHeight, stState, stChan, stCap, stConsumer,
                   stGot, stCalls>>

\* Mutant: the state keeps the slice it was given
NewStateHash_KeepsSlice(heap, arg) ==
    [heap |-> heap, prevSafeboxHash |-> arg]

\* SetState, lines 89-91: make([]byte, 32) and copy into it; the buffer of
\* the new state is a new one
NewStateHash(heap, arg) ==
    [heap |-> Append(heap, CopyHash(heap[arg])), prevSafeboxHash |-> Len(heap) + 1]

\* SetState, lines 87-92: the new state is built and stored
SetStateBody ==
    /\ stPeer = "body"
    /\ stHeap' = NewStateHash(stHeap, stArg).heap
    /\ stState' = [height |-> stHeight,
                   prevSafeboxHash |-> NewStateHash(stHeap, stArg).prevSafeboxHash]
    /\ stPeer' = "send"
    /\ UNCHANGED <<stArg, stGiven, stHeight, stLock, stChan, stCap, stConsumer, stGot, stCalls>>

\* SetState, line 85: the deferred this.onStateUpdate <- this, made with
\* the lock held.  Without a buffer it needs the consumer at its receive.
SetStateSend ==
    /\ stPeer = "send"
    /\ IF stCap = 0
       THEN /\ stConsumer = "receive"
            /\ stConsumer' = "handle"
            /\ UNCHANGED stChan
       ELSE /\ stChan < stCap
            /\ stChan' = stChan + 1
            /\ UNCHANGED stConsumer
    /\ stPeer' = "unlock"
    /\ UNCHANGED <<stHeap, stArg, stGiven, stHeight, stState, stLock, stCap, stGot, stCalls>>

\* SetState, line 84: the deferred Unlock(), and the return
SetStateUnlock ==
    /\ stPeer = "unlock"
    /\ stLock' = "unlocked"
    /\ stPeer' = "idle"
    /\ UNCHANGED <<stHeap, stArg, stGiven, stHeight, stState, stChan, stCap, stConsumer, stGot, stCalls>>

\* The consumer takes the next event off a buffered channel
ConsumerReceive ==
    /\ stConsumer = "receive"
    /\ stChan > 0
    /\ stChan' = stChan - 1
    /\ stConsumer' = "handle"
    /\ UNCHANGED <<stHeap, stArg, stGiven, stHeight, stState, stLock, stPeer, stCap, stGot, stCalls>>

\* GetState, line 96: the consumer, handling the event, calls GetState: RLock()
GetStateRLock ==
    /\ stConsumer = "handle"
    /\ stLock = "unlocked"
    /\ stLock' = "rlocked"
    /\ stConsumer' = "reading"
    /\ UNCHANGED <<stHeap, stArg, stGiven, stHeight, stState, stPeer, stChan, stCap, stGot, stCalls>>

\* GetState, lines 97-98: the return, and the deferred RUnlock()
GetStateReturn ==
    /\ stConsumer = "reading"
    /\ stGot' = <<[height |-> stState.height,
                   prevSafeboxHash |-> stHeap[stState.prevSafeboxHash]]>>
    /\ stLock' = "unlocked"
    /\ stConsumer' = "receive"
    /\ UNCHANGED <<stHeap, stArg, stGiven, stHeight, stState, stPeer, stChan, stCap, stCalls>>

\* After SetState returned, its caller writes into the buffer it had given
CallerMutates(b) ==
    /\ stPeer = "idle"
    /\ stArg # 0
    /\ stHeap[stArg] # <<>>
    /\ stHeap[stArg][1] # b
    /\ stHeap' = [stHeap EXCEPT ![stArg][1] = b]
    /\ UNCHANGED <<stArg, stGiven, stHeight, stState, stLock, stPeer, stChan, stCap, stConsumer,
                   stGot, stCalls>>

StNext ==
    \/ \E height \in {1, 2}, hash \in HashesUnderTest : SetStateCall(height, hash) /\ UNCHANGED exceptSt
    \/ SetStateLock /\ UNCHANGED exceptSt
    \/ SetStateBody /\ UNCHANGED exceptSt
    \/ SetStateSend /\ UNCHANGED exceptSt
    \/ SetStateUnlock /\ UNCHANGED exceptSt
    \/ ConsumerReceive /\ UNCHANGED exceptSt
    \/ GetStateRLock /\ UNCHANGED exceptSt
    \/ GetStateReturn /\ UNCHANGED exceptSt
    \/ CallerMutates(99) /\ UNCHANGED exceptSt

\* ---- the specifications: each part of the program on its own, the rest
\* of the state at rest
GbIdle == GbStart({})

ConnIdle == ConnStart(0)

CdIdle == CdStart(<<"u8">>, 0, FALSE, FALSE)

SbIdle == SbStart(<<>>)

StIdle == StStart(0)

Init == GbIdle /\ ConnInit /\ CdIdle /\ SbIdle /\ BlStart /\ CkIdle /\ StIdle

Next == ConnNext

Spec == Init /\ [][Next]_vars

InitGetBlocks == GbInit /\ ConnIdle /\ CdIdle /\ SbIdle /\ BlStart /\ CkIdle /\ StIdle

SpecGetBlocks == InitGetBlocks /\ [][GbNext]_vars

InitCodec == GbIdle /\ ConnIdle /\ CdInit /\ SbIdle /\ BlStart /\ CkIdle /\ StIdle

SpecCodec == InitCodec /\ [][CdNext]_vars

SpecDecode == InitCodec /\ [][DecodeNext]_vars

InitBytes == GbIdle /\ ConnIdle /\ CdIdle /\ SbInit /\ BlStart /\ CkIdle /\ StIdle

SpecBytes == InitBytes /\ [][SbNext]_vars

InitBlock == GbIdle /\ ConnIdle /\ CdIdle /\ SbIdle /\ BlStart /\ CkIdle /\ StIdle

SpecBlock == InitBlock /\ [][BlNext]_vars

InitChangeKey == GbIdle /\ ConnIdle /\ CdIdle /\ SbIdle /\ BlStart /\ CkInit /\ StIdle

SpecChangeKey == InitChangeKey /\ [][CkNext]_vars

InitState == GbIdle /\ ConnIdle /\ CdIdle /\ SbIdle /\ BlStart /\ CkIdle /\ StInit

SpecState == InitState /\ [][StNext]_vars

\* The threads run: a step of SetState or of the consumer that can be
\* taken is taken.  Nothing makes SetState be called, or its caller write.
FairState ==
    /\ WF_stVars(SetStateLock) /\ WF_stVars(SetStateBody) /\ WF_stVars(SetStateSend) /\ WF_stVars(SetStateUnlock)
    /\ WF_stVars(ConsumerReceive) /\ WF_stVars(GetStateRLock) /\ WF_stVars(GetStateReturn)

SpecStateFair == SpecState /\ FairState

(***************************************************************************)
(* Claims about onGetBlocksRequest                                         *)
(***************************************************************************)
GbDone == gbPc = "done" /\ gbOut # <<>>

GbLower == IF U32Gt(gbRequest.FromIndex, gbRequest.ToIndex)
           THEN gbRequest.ToIndex ELSE gbRequest.FromIndex

\* C1: the response of onGetBlocksRequest holds at most
\* NetworkBlocksPerRequest (100) block entries, whatever the request and
\* the chain.
C1_AtMostBlocksPerRequest ==
    GbDone => Len(gbOut[1].Blocks) <= NetworkBlocksPerRequest

\* C2: the response is exactly the stored blocks at the consecutive indices
\* lower, lower+1, ...: entry i is the stored block with index lower+i, and
\* the response ends at the first missing block or at the clamped upper
\* bound.
C2_ResponseIsStoredRun ==
    GbDone =>
        LET blocks == gbOut[1].Blocks
            next   == U32Add(GbLower, U32Of(Len(blocks)))
        IN  /\ \A i \in 1..Len(blocks) :
                   /\ U32Add(GbLower, U32Of(i - 1)) \in gbChain
                   /\ blocks[i] = BlockSerialize(BlockAt(U32Add(GbLower, U32Of(i - 1))))
            /\ \/ next \notin gbChain
               \/ U32Gt(next, gbPacket.ToIndex)
               \/ Len(blocks) > 0 /\ U32Add(GbLower, U32Of(Len(blocks) - 1)) = U32Max

\* C19: the header_only_tag of a block header followed by operations is
\* 2: every block of a getblocks response carries the tag 2, and no
\* other value.
C19_HeaderOnlyTag ==
    GbDone =>
        \A i \in 1..Len(gbOut[1].Blocks) : gbOut[1].Blocks[i].Header.HeaderOnly = 2

\* What the model finds to hold: a block serialized by Block.Serialize
\* carries the tag 2 (the entries of a response that were appended), and
\* every hello this side sends or replies carries a header with the tag 3.
SerializedBlocksTagged ==
    GbDone =>
        \A i \in 1..Len(gbOut[1].Blocks) :
            (i > Len(MakeSerialized(gbTotal))) => gbOut[1].Blocks[i].Header.HeaderOnly = 2

HelloHeaderTagged ==
    \A i \in 1..Len(outbox) :
        (outbox[i].op = "hello" /\ outbox[i].payload # <<>>) =>
            outbox[i].payload[1].Block.HeaderOnly = 3

(***************************************************************************)
(* Claims about the connection                                             *)
(***************************************************************************)
\* The events the handler of the current frame has sent on channel ch so
\* far: those the consumer has received and those still in the channel.
CurEvents(ch) ==
    LET entries == recv[ch] \o SelectSeq(chans[ch], LAMBDA e : e.frame = nframes)
    IN  [i \in 1..Len(entries) |-> entries[i].ev[1]]

IsPrefix(p, q) == Len(p) <= Len(q) /\ p = SubSeq(q, 1, Len(p))

CurHello == DeserializePacket(cur.payload, ZeroHello).packet

\* The responses written since the current frame was dispatched
NewResponses == {i \in (cur.outLen + 1)..Len(outbox) : outbox[i].rpc = "response"}

\* h cut or zero-filled to 32 bytes
To32Bytes(h) == [i \in 1..32 |-> IF i <= Len(h) THEN h[i] ELSE 0]

\* C3: a hello (request, or response to our hello) whose nonce is our own
\* makes the handler return the loopback error at once: no reply payload, the
\* peer state as before, no event on any channel.
C3_LoopbackRejected ==
    (cur.op = "hello" /\ CurHello.Nonce = nonce) =>
        /\ pc = "idle"
        /\ lastReturn = [out |-> <<>>, err |-> LoopbackError]
        /\ state = cur.stateBefore
        /\ \A ch \in Chans : CurEvents(ch) = <<>>
        /\ NewResponses = {}

C3_Witness ==
    /\ cur.op = "hello"
    /\ cur.rpc = "request"
    /\ CurHello.Nonce = nonce
    /\ cur.prev = "hello"
    /\ state # ZeroState
    /\ lastReturn.err = LoopbackError

\* C4 as stated: after a hello whose nonce differs from ours the peer state
\* is the index and the prev_safebox_hash the hello's header carries.
C4_StateIsCarriedHash ==
    (cur.hello # <<>> /\ cur.hello[1].UserAgent # "") =>
        state = [height |-> cur.hello[1].Block.Index,
                 prevSafeboxHash |-> cur.hello[1].Block.PrevSafeboxHash]

\* C4 amended: after a hello whose nonce differs from ours the peer state is
\* the index of the header it carries and its prev_safebox_hash cut or
\* zero-filled to 32 bytes; the handler sends exactly one StateUpdate event
\* for this connection; every GetState from then on, until a later hello,
\* returns that height and that 32-byte hash.
C4_HelloRecordsState ==
    /\ cur.hello # <<>> =>
           LET expected == [height |-> cur.hello[1].Block.Index,
                            prevSafeboxHash |-> To32Bytes(cur.hello[1].Block.PrevSafeboxHash)]
           IN  /\ state = expected
               /\ lastGet # <<>> => lastGet[1] = expected
    /\ (cur.op = "hello" /\ CurHello.Nonce # nonce) =>
           /\ IsPrefix(CurEvents("onStateUpdate"), <<[conn |-> This]>>)
           /\ (pc = "idle" \/ stateLock = "unlocked") =>
                  CurEvents("onStateUpdate") = <<[conn |-> This]>>
           /\ lastGet # <<>> => CurEvents("onStateUpdate") = <<[conn |-> This]>>

C4_Witness ==
    /\ cur.hello # <<>>
    /\ Len(cur.hello[1].Block.PrevSafeboxHash) # 32
    /\ cur.hello[1].UserAgent # ""
    /\ cur.op = "newBlock"
    /\ pc = "idle"
    /\ lastGet # <<>>

\* C5: an outgoing connection sends on open exactly one hello request, with
\* its own nonce, the header of the pending block serialised alone and no
\* peers; an incoming connection sends nothing on open; a hello is otherwise
\* produced only as the reply to a hello request whose nonce is not ours,
\* once that hello's state is recorded and its StateUpdate sent.
C5_HandshakeOrdering ==
    LET expected == [Nonce |-> nonce,
                     Block |-> [SerializeHeader(PendingBlock, TRUE) EXCEPT !.HeaderOnly = 3],
                     Peers |-> <<>>, UserAgent |-> "ua"]
        requests == {i \in 1..Len(outbox) : outbox[i].op = "hello" /\ outbox[i].rpc = "request"}
        accepted == cur.rpc = "request" /\ cur.op = "hello" /\ CurHello.Nonce # nonce
    IN  /\ (opened /\ isOutgoing) =>
               /\ requests = {1}
               /\ outbox[1].payload = <<expected>>
        /\ ~(opened /\ isOutgoing) => requests = {}
        /\ (~isOutgoing /\ nframes = 0 /\ nextId = 0) => outbox = <<>>
        /\ IF accepted /\ pc = "idle"
           THEN /\ Cardinality(NewResponses) = 1
                /\ \A i \in NewResponses :
                       /\ outbox[i].op = "hello"
                       /\ outbox[i].payload = <<expected>>
                /\ state = [height |-> CurHello.Block.Index,
                            prevSafeboxHash |-> To32Bytes(CurHello.Block.PrevSafeboxHash)]
                /\ CurEvents("onStateUpdate") = <<[conn |-> This]>>
           ELSE NewResponses = {}

C5_Witness ==
    /\ opened
    /\ ~isOutgoing
    /\ pc = "idle"
    /\ cur.rpc = "request"
    /\ cur.op = "hello"
    /\ CurHello.Nonce # nonce
    /\ CurHello.Peers # <<>>
    /\ Cardinality(NewResponses) = 1

\* C6: the callback of a getblocks request runs once (its pending entry is
\* gone when it runs); with a response it sends one NewBlock event with
\* shouldBroadcast = FALSE per block of the response, in response order, and
\* then one Done signal; with no response it sends no NewBlock event and
\* one Done signal.
C6_DownloadCallback ==
    (cur.op = "getBlocks" /\ cur.rpc = "response") =>
        LET blocks   == IF cur.nilResponse \/ cur.payload = <<>>
                        THEN <<>> ELSE cur.payload[1].Blocks
            expected == [i \in 1..Len(blocks) |->
                           [conn |-> This, SerializedBlock |-> blocks[i],
                            shouldBroadcast |-> FALSE]]
            sent     == CurEvents("onNewBlock")
            done     == CurEvents("downloadingDone")
        IN  /\ IsPrefix(sent, expected)
            /\ IsPrefix(done, <<[downloadingDone |-> cur.id]>>)
            /\ done # <<>> => sent = expected
            /\ pc = "idle" => done # <<>>
            /\ \A p \in pending : p.id # cur.id
            /\ \A ch \in Chans \ {"onNewBlock", "downloadingDone"} : CurEvents(ch) = <<>>

C6_Witness ==
    /\ cur.op = "getBlocks"
    /\ cur.rpc = "response"
    /\ ~cur.nilResponse
    /\ pc = "idle"
    /\ Len(CurEvents("onNewBlock")) = MaxOps
    /\ Len(CurEvents("downloadingDone")) = 1

\* C7: a newblock notification yields exactly one NewBlock event, of this
\* connection, with shouldBroadcast = TRUE; and any NewBlock event has
\* shouldBroadcast = TRUE exactly when a newblock notification sent it and
\* FALSE exactly when a getblocks download did.
C7_NewBlockBroadcastFlag ==
    /\ cur.op = "newBlock" =>
           LET block    == DeserializePacket(cur.payload, ZeroNewBlock).packet.SerializedBlock
               expected == <<[conn |-> This, SerializedBlock |-> block, shouldBroadcast |-> TRUE]>>
           IN  /\ IsPrefix(CurEvents("onNewBlock"), expected)
               /\ pc = "idle" => CurEvents("onNewBlock") = expected
               /\ \A ch \in Chans \ {"onNewBlock"} : CurEvents(ch) = <<>>
    /\ \A i \in 1..Len(recv["onNewBlock"] \o chans["onNewBlock"]) :
           LET e == (recv["onNewBlock"] \o chans["onNewBlock"])[i]
           IN  e.ev # <<>> =>
                   /\ e.by \in {"newBlock", "getBlocks"}
                   /\ e.ev[1].shouldBroadcast = (e.by = "newBlock")
                   /\ e.ev[1].conn = This

C7_Witness ==
    /\ cur.op = "newBlock"
    /\ cur.prev = "getBlocks"
    /\ cur.payload # <<>>
    /\ pc = "idle"
    /\ Len(CurEvents("onNewBlock")) = 1
    /\ CurEvents("onNewBlock")[1].shouldBroadcast

\* C8: a newoperations notification with k operations yields exactly k
\* NewOperation events of this connection, one per operation, in payload
\* order; the handler waits on a full channel and drops nothing; the peer
\* state is as before.
C8_NewOperationsEvents ==
    cur.op = "newOperations" =>
        LET ops      == DeserializePacket(cur.payload, ZeroNewOperations).packet.Operations
            expected == [i \in 1..Len(ops) |-> [conn |-> This, op |-> ops[i]]]
            sent     == CurEvents("onNewOperation")
        IN  /\ IsPrefix(sent, expected)
            /\ Len(sent) + Len(todo) = Len(ops)
            /\ pc = "idle" => sent = expected
            /\ Len(chans["onNewOperation"]) <= chanCap
            /\ state = cur.stateBefore
            /\ \A ch \in Chans \ {"onNewOperation"} : CurEvents(ch) = <<>>

C8_Witness ==
    /\ cur.op = "newOperations"
    /\ pc = "idle"
    /\ Len(CurEvents("onNewOperation")) = MaxOps
    /\ chanCap > 0
    /\ Len(chans["onNewOperation"]) = chanCap

\* C9: the error-report handler returns no error and no payload, sends no
\* event, writes no response and leaves the peer state as it was; the
\* connection stays alive and ready for the next frame.
C9_ErrorReportNotFatal ==
    cur.op = "errorReport" =>
        /\ pc = "idle"
        /\ lastReturn = [out |-> <<>>, err |-> NoError]
        /\ \A ch \in Chans : CurEvents(ch) = <<>>
        /\ NewResponses = {}
        /\ state = cur.stateBefore
        /\ alive

C9_Witness ==
    /\ cur.prev = "errorReport"
    /\ cur.op = "newOperations"
    /\ pc = "idle"
    /\ Len(CurEvents("onNewOperation")) > 0

\* C13: when the payload of a request or notification cannot be decoded
\* (here: it holds no bytes, where the packet has fields), the handler
\* returns an error, it emits no NewBlock, NewOperation or StateUpdate
\* event, and the peer state is unchanged.
C13_UndecodablePayloadRejected ==
    (/\ pc = "idle"
     /\ cur.rpc \in {"request", "notification"}
     /\ cur.op \in {"hello", "errorReport", "newBlock", "newOperations"}
     /\ cur.payload = <<>>) =>
        /\ lastReturn.err # NoError
        /\ \A ch \in {"onNewBlock", "onNewOperation", "onStateUpdate"} : CurEvents(ch) = <<>>
        /\ state = cur.stateBefore

(***************************************************************************)
(* Claims about the codec                                                  *)
(***************************************************************************)
\* C10: for every value of a supported type, Deserialize of the bytes
\* Serialize produced, into a fresh value of the type, ends with a value
\* equal to the original and with every byte consumed.
C10_CodecRoundTrip ==
    (cdMode \in {"done", "panic"} /\ ~cdPresized) =>
        /\ cdMode = "done"
        /\ cdRoot = cdValue
        /\ cdBuf = <<>>

\* The part of the round trip the model finds to hold: composites given by
\* value or by pointer, whose fields are unsigned integers, strings,
\* length-prefixed byte sequences, composites and lists of these.
HasCustom(t) ==
    \E n \in 0..3 : \E path \in [1..n -> 1..4] :
        /\ \A m \in 0..(n - 1) :
               /\ TypeAt(t, SubSeq(path, 1, m))[1] \in {"struct", "list"}
               /\ TypeAt(t, SubSeq(path, 1, m))[1] = "struct" =>
                      path[m + 1] <= Len(TypeAt(t, SubSeq(path, 1, m))[2])
        /\ TypeAt(t, path)[1] \in {"raw", "iface"}

CodecRoundTripPlain ==
    (cdMode \in {"done", "panic"} /\ cdType[1] \notin {"list", "bytes"} /\ ~HasCustom(cdType)) =>
        /\ cdMode = "done"
        /\ cdRoot = cdValue
        /\ cdBuf = <<>>

\* The paths of the leaves and lists of a value in depth-first,
\* left-to-right order: a composite gives those of its fields in declared
\* order, a list gives itself and then those of its elements, a leaf
\* (integer, string, byte sequence, custom-codec value) gives itself.
RECURSIVE LeavesAndLists(_, _, _)
RECURSIVE LeavesFrom(_, _, _, _)
LeavesFrom(t, v, path, i) ==
    IF i > Total(t, v) THEN <<>>
    ELSE LeavesAndLists(TypeAt(t, <<i>>), v[i], Append(path, i))
         \o LeavesFrom(t, v, path, i + 1)

LeavesAndLists(t, v, path) ==
    CASE t[1] = "struct" -> LeavesFrom(t, v, path, 1)
      [] t[1] = "list" -> <<path>> \o LeavesFrom(t, v, path, 1)
      [] OTHER -> <<path>>

\* C20: the walker calls its callback exactly once per leaf and once per
\* list, the list before its elements, in depth-first, left-to-right
\* declared order, for every value.
C20_WalkerCallbackOrder ==
    /\ cdMode = "serialized" => cdLog = LeavesAndLists(cdType, cdValue, <<>>)
    /\ cdMode = "done" => cdLog = LeavesAndLists(cdType, cdRoot, <<>>)

\* What the model finds to hold: the same for a composite given by
\* pointer, and for one given by value that holds no custom-codec
\* value outside of a list.
WalkerCallbackOrderOfComposites ==
    (cdType[1] = "struct" /\ (cdAddr \/ ~HasCustom(cdType) \/ cdType[2][1][1] = "list")) =>
        /\ cdMode = "serialized" => cdLog = LeavesAndLists(cdType, cdValue, <<>>)
        /\ cdMode = "done" => cdLog = LeavesAndLists(cdType, cdRoot, <<>>)

\* C11: decoding an input that ends in the middle of a field, or whose
\* length prefix or count is larger than what is left of the input, fails
\* with an error: when Deserialize returns on such an input, what it
\* returns is not nil.  (Over the types every field of which has a fixed
\* width, a length prefix or a count, where each cut takes bytes a field needs.)
C11_TruncatedInputFails ==
    (cdCut /\ cdMode = "done" /\ cdType[1] \notin {"list", "bytes"} /\ ~HasCustom(cdType)) =>
        cdErr # <<NoError>>

\* C12: the 16-bit length prefix is unsigned on both sides: for every byte
\* sequence d of length 0..65535, DeserializeBytes given all of
\* SerializeBytes(d) returns d and no error.
C12_BytesRoundTrip ==
    (sbPc \in {"done", "panic"} /\ ~sbCut /\ Len(sbData) <= 65535) =>
        /\ sbPc = "done"
        /\ sbOut = <<[data |-> sbData, err |-> NoError]>>

\* What the model finds to hold: the round trip for the lengths 0..32767,
\* and an error, with no data, for every reader that ends early.
BytesRoundTripShort ==
    /\ (sbPc \in {"done", "panic"} /\ ~sbCut /\ Len(sbData) <= 32767) =>
           /\ sbPc = "done"
           /\ sbOut = <<[data |-> sbData, err |-> NoError]>>
    /\ (sbPc = "done" /\ sbCut) => (sbOut[1].err # NoError /\ sbOut[1].data = <<>>)

(***************************************************************************)
(* Claims about NewBlock and GetOperationsHash                             *)
(***************************************************************************)
\* The left fold of the claim: acc0 = SHA256(""), and
\* acc_{i+1} = SHA256(acc_i ++ SHA256(encode_underlying(op_i)))
RECURSIVE FoldHash(_)
FoldHash(operations) ==
    IF operations = <<>> THEN Sha256(<<>>)
    ELSE LET n == Len(operations)
         IN  Sha256(<<FoldHash(SubSeq(operations, 1, n - 1)),
                      Sha256(SerializeUnderlying(operations[n]))>>)

\* C14: the operations hash of a block is the left fold over its
\* operations in list order; the empty list hashes to SHA256(""); two
\* lists that differ in content or in order have different hashes.
C14_OperationsHashIsFold ==
    \A i \in 1..Len(blChain) :
        /\ blChain[i].OperationsHash = FoldHash(blChain[i].Operations)
        /\ blChain[i].Operations = <<>> => blChain[i].OperationsHash = Sha256(<<>>)
        /\ \A j \in 1..Len(blChain) :
               blChain[i].Operations # blChain[j].Operations =>
                   blChain[i].OperationsHash # blChain[j].OperationsHash

C14_Witness ==
    /\ Len(blChain) = 2
    /\ Len(blChain[1].Operations) = 2
    /\ blChain[1].Operations[1] # blChain[1].Operations[2]
    /\ blChain[2].Operations = <<blChain[1].Operations[2], blChain[1].Operations[1]>>
    /\ blChain[1].OperationsHash # blChain[2].OperationsHash

\* The sum of the fees as a number of five limbs, which holds it in full
RECURSIVE WideSum(_)
WideSum(operations) ==
    IF operations = <<>> THEN <<0, 0, 0, 0, 0>>
    ELSE AddLimbs(WideSum(Tail(operations)), Append(Head(operations).Fee, 0), 0, 5)

\* C15: the fee of every block NewBlock built is the sum of the fees of
\* its operations, without wrapping, and its operations hash is that of
\* the operations it carries, which are meta's, in the same order.
C15_FeeIsSumOfFees ==
    \A i \in 1..Len(blChain) :
        /\ Append(blChain[i].Fee, 0) = WideSum(blChain[i].Operations)
        /\ blChain[i].Operations = blChain[i].Meta.Operations
        /\ blChain[i].OperationsHash = FoldHash(blChain[i].Operations)

\* What the model finds to hold: the fee is the sum modulo 2^64.
FeeIsSumModulo ==
    \A i \in 1..Len(blChain) :
        blChain[i].Fee = SubSeq(WideSum(blChain[i].Operations), 1, 4)

Minted(i) == {blChain[i].Accounts[k].Number : k \in 1..Len(blChain[i].Accounts)}

\* C16: over a chain of the blocks 0..n, each block mints 5 accounts, the
\* accounts of different blocks have distinct numbers, and the numbers
\* minted are exactly 0..5(n+1)-1.
C16_AccountNumbersDense ==
    /\ \A i \in 1..Len(blChain) :
           /\ blChain[i].Meta.Index = U32Of(i - 1)
           /\ Len(blChain[i].Accounts) = AccountsPerBlock
           /\ Cardinality(Minted(i)) = AccountsPerBlock
    /\ \A i, j \in 1..Len(blChain) : i # j => Minted(i) \cap Minted(j) = {}
    /\ UNION {Minted(i) : i \in 1..Len(blChain)}
           = {U32Of(k) : k \in 0..(AccountsPerBlock * Len(blChain) - 1)}

\* What the model finds to hold: block i mints the numbers i..i+4.
AccountNumbersFromIndex ==
    \A i \in 1..Len(blChain) : Minted(i) = {U32Of(k) : k \in (i - 1)..(i + 3)}

(***************************************************************************)
(* Claims about the ChangeKey operation                                    *)
(***************************************************************************)
\* C17: if Validate succeeds then fee <= source.balance, and Apply with
\* the returned context returns no error and a map whose only key is the
\* source account's number, holding the KeyChange to the new public key
\* and then BalanceSub(fee), both stamped with the block index.
C17_ValidatedApplyCannotFail ==
    /\ ckPc \in {"validated", "applied"} =>
           /\ ckContext # <<>>
           /\ ckContext[1].Source = ckAccounts[ckOp.Source][1]
           /\ ~U64Lt(ckContext[1].Source.Balance, ckOp.Fee)
    /\ ckPc = "applied" =>
           /\ ckErr = NoError
           /\ DOMAIN ckResult[1] = {ckAccounts[ckOp.Source][1].Number}
           /\ \E index \in 0..MaxBlockIndex :
                  ckResult[1][ckAccounts[ckOp.Source][1].Number] =
                      <<[delta |-> "KeyChange", public |-> ckOp.NewPublickey, index |-> index],
                        [delta |-> "BalanceSub", amount |-> ckOp.Fee, index |-> index]>>

C17_Witness ==
    /\ ckPc = "applied"
    /\ ckOp.Fee = U64Of(5)
    /\ ckAccounts[ckOp.Source][1].Balance = U64Of(5)
    /\ Len(ckResult[1][ckOp.Source]) = 2

\* C18: validation accepts an operation only if its op_id is the source
\* account's operations counter plus 1, and a rejected operation changes
\* no account state.
C18_OperationIdChecked ==
    /\ ckPc \in {"validated", "applied"} =>
           ckOp.OperationId = ckAccounts[ckOp.Source][1].Operations + 1
    /\ ckPc = "rejected" => (ckContext = <<>> /\ ckResult = <<>>)

(***************************************************************************)
(* Claims about SetState and GetState                                      *)
(***************************************************************************)
\* C21: after any SetState calls, with hashes shorter than, as long as or
\* longer than 32 bytes, the recorded hash is 32 bytes long, the input cut
\* or zero-filled, and a private copy: what the caller writes into its
\* buffer afterwards does not change it.
C21_RecordedHashIsPrivateCopy ==
    /\ Len(stHeap[stState.prevSafeboxHash]) = 32
    /\ (stCalls > 0 /\ stPeer \in {"send", "unlock", "idle"}) =>
           /\ stState.height = stHeight
           /\ stHeap[stState.prevSafeboxHash] = To32Bytes(stGiven)
           /\ stState.prevSafeboxHash # stArg

C21_Witness ==
    /\ stCalls = 2
    /\ stPeer = "idle"
    /\ Len(stGiven) = 31
    /\ stHeap[stArg] # stGiven
    /\ stHeap[stState.prevSafeboxHash] = To32Bytes(stGiven)

\* C22: SetState and GetState never deadlock: whenever the peer thread is
\* inside SetState it returns, and whenever the consumer is handling an
\* event, where it calls GetState, it gets back to its receive, also with
\* the onStateUpdate channel unbuffered or full.
C22_CallsReturn ==
    /\ (stPeer # "idle") ~> (stPeer = "idle")
    /\ (stConsumer # "receive") ~> (stConsumer = "receive")

\* the state the two threads do not leave: SetState holds the lock and
\* waits to send, the consumer waits for the lock
StuckOnSend ==
    /\ stPeer = "send"
    /\ stLock = "locked"
    /\ stConsumer = "handle"
    /\ stCap = 0 \/ stChan = stCap

StuckOnFullChannel == StuckOnSend /\ stCap > 0

(***************************************************************************)
(* Claims about the range of onGetBlocksRequest                            *)
(***************************************************************************)
GbUpper == IF U32Gt(gbRequest.FromIndex, gbRequest.ToIndex)
           THEN gbRequest.FromIndex ELSE gbRequest.ToIndex

\* What the model finds to hold: the range is computed from the unordered
\* pair of bounds, so (from, to) and (to, from) give the same range and the
\* same response, and neither the subtraction nor the clamp wraps.
RangeFromUnorderedBounds ==
    (gbPc \in {"loop", "done"}) =>
        /\ gbPacket.FromIndex = GbLower
        /\ U32Le(gbPacket.FromIndex, gbPacket.ToIndex)
        /\ U32Le(gbPacket.ToIndex, GbUpper)
        /\ gbTotal = U32Sub(gbPacket.ToIndex, gbPacket.FromIndex)
        /\ U32Le(gbTotal, U32Of(NetworkBlocksPerRequest))
        /\ (gbPacket.ToIndex # GbUpper) => gbTotal = U32Of(NetworkBlocksPerRequest)

\* C23: for every (from, to), also from > to, from = to and to = 2^32-1
\* with blocks stored up to the upper bound, the range is computed without
\* wrap-around: the loop index stays between the lower bound and one past
\* the upper bound, and the blocks read are those of the range.
C23_RangeWithoutWrap ==
    (gbPc \in {"loop", "done"}) =>
        /\ gbPacket.FromIndex = GbLower
        /\ U32Le(gbPacket.FromIndex, gbPacket.ToIndex)
        /\ U32Le(gbPacket.FromIndex, gbIndex)
        /\ Len(gbSerialized) - Len(MakeSerialized(gbTotal)) =
               U32Sub(gbIndex, gbPacket.FromIndex)[2]

\* the loop index has passed 2^32-1 and reads the chain from block 0 on
IndexWrapped ==
    /\ gbPc = "loop"
    /\ gbPacket.ToIndex = U32Max
    /\ gbIndex = U32Of(0)
    /\ Len(gbSerialized) > Len(MakeSerialized(gbTotal))

====
